---- MODULE Spec2Model ----
(***************************************************************************)
(* Link-state routing daemon of src/shared/router.py, seen from one        *)
(* router (Self).  The daemon runs three threads over shared dictionaries  *)
(* without any lock: the packet receiver (Router.receive_packets), the LSA *)
(* sender (LSASender.send_to_neighbors, started lazily) and the failure    *)
(* detector (NeighborManager.check_failures).  Each thread is a program    *)
(* counter pc[t]; one action is one statement (or one group of statements  *)
(* that touch the shared state together) of the source.  The environment   *)
(* is the datagrams delivered to the socket and the wall clock.            *)
(***************************************************************************)
EXTENDS Integers, Sequences, FiniteSets, TLC

\* ---------------------------------------------------------------- bounds
MaxTicks == 1        \* the clock takes the values 0 .. MaxTicks * TickStep
MaxRecv == 2         \* datagrams delivered to the receiver
MaxLsaSeq == 2       \* sequence numbers carried by received LSAs: 1 .. MaxLsaSeq
MaxOwnSeq == 2       \* LSAs the local router originates
MaxScans == 1        \* scans the failure detector makes
MaxPreempt == 1      \* preemptions: switches away from a thread that is not blocked
MaxFloodRecv == 4     \* datagrams delivered in the flooding environment
MaxLsaTime == 1      \* timestamps carried by received LSAs: 1 .. MaxLsaTime

\* ------------------------------------------------------------- constants
hello_interval == 10
tolerance == 3
Inf == 1000000
PlaceholderSeq == -1
\* one step of the clock: longer than the window after which the failure
\* detector declares a silent neighbor failed (line 621)
TickStep == hello_interval * (tolerance + 1)

Self == "R1"
IdSeq == <<"R1", "R2", "R3">>
Ids == {IdSeq[i] : i \in 1..Len(IdSeq)}
Others == Ids \ {Self}
None == "None"
Threads == {"recv", "lsa", "fd"}

\* source IP of the datagrams each neighbor sends on the shared link
IPOf == [n \in Ids |-> IF n = "R1" THEN "10.0.0.1"
                       ELSE IF n = "R2" THEN "10.0.0.2" ELSE "10.0.0.3"]
\* the addresses a router advertises in its LSAs
AddrOf == [n \in Ids |-> IF n = "R1" THEN <<"10.0.0.1">>
                         ELSE IF n = "R2" THEN <<"192.168.2.0/24">>
                         ELSE <<"192.168.3.0/24">>]
\* Router._interfaces of the local router
interfaces == AddrOf[Self]
\* the CONNECTED_TO_ROUTER_<id> environment variables that are set
Env == [n \in {"R2"} |-> 5]
LinkCosts == {1}

\* --------------------------------------------------------------- helpers
Range(s) == {s[i] : i \in 1..Len(s)}
RemoveSeq(s, x) == SelectSeq(s, LAMBDA y : y # x)
Put(f, k, v) == [x \in DOMAIN f \cup {k} |-> IF x = k THEN v ELSE f[x]]
Del(f, k) == [x \in DOMAIN f \ {k} |-> f[x]]
\* the members of S in the order of IdSeq
RECURSIVE SortedFrom(_, _)
SortedFrom(S, i) ==
    IF i > Len(IdSeq) THEN <<>>
    ELSE IF IdSeq[i] \in S THEN <<IdSeq[i]>> \o SortedFrom(S, i + 1)
    ELSE SortedFrom(S, i + 1)
Sorted(S) == SortedFrom(S, 1)

\* ------------------------------------------------------------------ LSDB
create_entry(sequence_number, timestamp, addresses, links) ==
    [sequence_number |-> sequence_number, timestamp |-> timestamp,
     addresses |-> addresses, links |-> links]

Placeholder == create_entry(PlaceholderSeq, 0, <<>>, <<>>)

\* variant: the comparison of line 87 is strict, a duplicate is accepted
IsStaleStrict(tab, packet) ==
    /\ packet.router_id \in DOMAIN tab
    /\ packet.sequence_number < tab[packet.router_id].sequence_number

\* LSDB.update, lines 84-88: the packet is stale
IsStale(tab, packet) ==
    /\ packet.router_id \in DOMAIN tab
    /\ packet.sequence_number <= tab[packet.router_id].sequence_number

\* variant: the entry of lines 91-92 is stored without the packet's links
StoreEntryNoLinks(tab, packet) ==
    Put(tab, packet.router_id,
        create_entry(packet.sequence_number, packet.timestamp,
                     packet.addresses, <<>>))

\* LSDB.update, lines 91-92: the stored entry
StoreEntry(tab, packet) ==
    Put(tab, packet.router_id,
        create_entry(packet.sequence_number, packet.timestamp,
                     packet.addresses, packet.links))

\* insertion order of the keys of a dict after d[k] = v
OrderPut(ord, k) == IF k \in Range(ord) THEN ord ELSE Append(ord, k)

\* variant: line 195 without the test of line 194, a listed router's entry
\* is overwritten
AddPlaceholdersAlways(tab, observed) ==
    [x \in DOMAIN tab \cup observed |->
        IF x \in observed THEN Placeholder ELSE tab[x]]

\* LSDB.recalculate_routes, lines 192-195
AddPlaceholders(tab, observed) ==
    [x \in DOMAIN tab \cup observed |->
        IF x \in DOMAIN tab THEN tab[x] ELSE Placeholder]
OrderPlaceholders(ord, observed) ==
    ord \o Sorted(observed \ Range(ord))

\* LSDB.dijkstra, lines 118-140; ok = FALSE is the KeyError of line 132 or 138
RECURSIVE DijkstraLoop(_, _, _, _, _)
DijkstraLoop(tab, dorder, distances, paths, visited) ==
    IF ~(Cardinality(visited) < Cardinality(DOMAIN tab))
    THEN [ok |-> TRUE, paths |-> paths]
    ELSE
      LET cand == {i \in 1..Len(dorder) :
                      dorder[i] \notin visited /\ distances[dorder[i]] < Inf}
      IN IF cand = {} THEN [ok |-> TRUE, paths |-> paths]
         ELSE
           LET best == CHOOSE i \in cand : \A j \in cand :
                          \/ distances[dorder[i]] < distances[dorder[j]]
                          \/ (distances[dorder[i]] = distances[dorder[j]] /\ i <= j)
               current_router == dorder[best]
               vis2 == visited \cup {current_router}
           IN IF current_router \notin DOMAIN tab
              THEN [ok |-> FALSE, paths |-> paths]
              ELSE
                LET neighbors == tab[current_router].links
                    open == {n \in DOMAIN neighbors : n \notin vis2}
                IN IF \E n \in open : n \notin DOMAIN distances
                   THEN [ok |-> FALSE, paths |-> paths]
                   ELSE
                     LET total_cost(n) == neighbors[n] + distances[current_router]
                         better == {n \in open : total_cost(n) < distances[n]}
                         d2 == [n \in DOMAIN distances |->
                                   IF n \in better THEN total_cost(n) ELSE distances[n]]
                         p2 == [n \in DOMAIN paths \cup better |->
                                   IF n \in better THEN current_router ELSE paths[n]]
                         \* the next iteration, on the values of d2, p2 and vis2
                         \* (@@ <<>> leaves a function as it is)
                         iter == {DijkstraLoop(tab, dorder, x[1], x[2], x[3]) :
                                     x \in {<<d2 @@ <<>>, p2 @@ <<>>, vis2>>}}
                     IN CHOOSE r \in iter : TRUE

\* LSDB.dijkstra, lines 107-116 and 142
dijkstra(tab, ord) ==
    LET dorder == IF Self \in DOMAIN tab THEN ord ELSE Append(ord, Self)
        distances == [r \in DOMAIN tab \cup {Self} |-> IF r = Self THEN 0 ELSE Inf]
        paths == [r \in DOMAIN tab |-> None]
    IN DijkstraLoop(tab, dorder, distances, paths, {})

\* LSDB.update_next_hop, lines 153-155
RECURSIVE WalkHop(_, _)
WalkHop(paths, hop) ==
    IF hop = None THEN None
    ELSE IF paths[hop] = Self THEN hop
    ELSE WalkHop(paths, paths[hop])

\* variant: lines 153-155 without the walk, every destination that has a
\* predecessor is its own next hop
update_next_hop_direct(rt, paths) ==
    LET dests == DOMAIN paths \ {Self}
    IN [d \in DOMAIN rt \cup dests |->
          IF d \in dests THEN (IF paths[d] = None THEN None ELSE d) ELSE rt[d]]

\* LSDB.update_next_hop, lines 151-158
update_next_hop(rt, paths) ==
    LET dests == DOMAIN paths \ {Self}
    IN [d \in DOMAIN rt \cup dests |->
          IF d \in dests THEN WalkHop(paths, d) ELSE rt[d]]

\* NeighborManager.get_cost
get_cost(neighbor_id) ==
    IF neighbor_id \in DOMAIN Env THEN Env[neighbor_id] ELSE 1

\* ---------------------------------------------------------------- packets
\* packet.get("known_neighbors") of a packet without that field: Python's
\* None, here a value that can be compared with the lists of router ids
NoList == {None}

NoPacket ==
    [type |-> "none", router_id |-> None, timestamp |-> 0, known_neighbors |-> {},
     sequence_number |-> 0, addresses |-> <<>>, links |-> <<>>]

HelloPacket(rid, ts, known) ==
    [type |-> "HELLO", router_id |-> rid, timestamp |-> ts, known_neighbors |-> known,
     sequence_number |-> 0, addresses |-> <<>>, links |-> <<>>]

LsaPacket(rid, seq, ts, addrs, links) ==
    [type |-> "LSA", router_id |-> rid, timestamp |-> ts, known_neighbors |-> {},
     sequence_number |-> seq, addresses |-> addrs, links |-> links]

\* the link maps a remote router may advertise: all its neighbors, with or
\* without the local router among them
LinkMaps(rid) ==
    UNION {[S -> LinkCosts] : S \in {Ids \ {rid}, Ids \ {rid, Self}}}

VARIABLES
    now,                \* time.time()
    detected,           \* _detected_neighbors / _neighbors_cost (NeighborCost)
    recognized,         \* _recognized_neighbors / _neighbors_ip (NeighborIP)
    hello_timestamps,   \* NeighborManager._hello_timestamps (LastHello)
    table,              \* LSDB._table
    torder,             \* insertion order of the keys of LSDB._table
    routing_table,      \* LSDB._routing_table
    kernel,             \* kernel routes written by "ip route replace"
    sequence_number,    \* LSASender._sequence_number
    started,            \* LSASender._started
    pc,                 \* position of each thread
    pkt,                \* the packet each thread is working on
    src,                \* sender_ip of the datagram the receiver is working on
    upd,                \* the packet of the LSDB.update call the latest step began
    ret,                \* outcome of the LSDB.update call the latest step completed
                        \* ("none": it completed no call)
    failed,             \* failed_routers still to handle (failure detector)
    observed,           \* observed_routers argument of recalculate_routes
    todo,               \* update_routes: items of the snapshot not yet visited
    cur,                \* update_routes: destination being installed
    sendq,              \* send_to_neighbors: iteration over _neighbors_ip
    sent,               \* datagrams the latest step handed to sendto
    senderr,            \* those of them for which sendto raised an exception
    cmdfail,            \* per thread: addresses whose route command failed in
                        \* the call of update_routes it is executing
    got,                \* the datagram recvfrom returned in the latest step
    nrecv,              \* datagrams delivered so far
    nscans,             \* scans the failure detector has begun
    nthreads,           \* LSA sender threads created by LSASender.start
    ackHello,           \* senders of processed HELLOs that listed Self
    maxSeq,             \* highest sequence number ever stored per router id
    everRecognized,     \* some neighbor has been recognized
    fresh,              \* neighbors recognized since the last origination
    originated,         \* sequence numbers of the LSAs built by create_packet
    forwards,           \* per (origin, sequence number): calls of forward_to_neighbors
                        \* that sent the LSA to at least one neighbor
    removals,           \* per router: deletions of its LSDB entry by check_failures
    declared,           \* failed_routers of the latest scan of check_failures
    peerDetected,       \* the other routers that hold Self in their NeighborCost
    peerRecognized,     \* the other routers that hold Self in their NeighborIP
    inbox,              \* datagrams of the neighbors' current period not yet delivered
    netOrder,           \* per router of the network: insertion order of the keys of its LSDB._table
    netRoutes,          \* per router of the network: its LSDB._routing_table
    peerLsa,            \* LSASender._sequence_number in neighbor R2, and how often R2 has restarted
    running,            \* the thread that holds the interpreter, None: no thread
    npre                \* preemptions so far

neigh == <<detected, recognized, hello_timestamps>>
lsdb == <<table, torder, routing_table, kernel>>
lsa == <<sequence_number, started, nthreads, originated>>
locals == <<pkt, src, failed, observed, todo, cur, sendq, cmdfail>>
bounds == <<nrecv, nscans>>
hist == <<forwards, removals, declared>>
peer == <<peerDetected, peerRecognized, inbox, netOrder, netRoutes, peerLsa>>

vars == <<now, detected, recognized, hello_timestamps, table, torder, routing_table,
          kernel, sequence_number, started, pc, pkt, src, upd, ret, failed, observed,
          todo, cur, sendq, sent, senderr, cmdfail, got, nrecv, nscans, nthreads, ackHello, maxSeq,
          everRecognized, fresh, originated, forwards, removals, declared,
          peerDetected,
          peerRecognized, inbox, netOrder, netRoutes, peerLsa, running, npre>>

NoCur == [dest |-> None, gw |-> None, addrs |-> <<>>, ip |-> None]
NoSend == [size |-> 0]

Init ==
    /\ now = 0
    /\ detected = <<>>
    /\ recognized = <<>>
    /\ hello_timestamps = <<>>
    /\ table = <<>>
    /\ torder = <<>>
    /\ routing_table = <<>>
    /\ kernel = <<>>
    /\ sequence_number = 0
    /\ started = FALSE
    /\ pc = [t \in Threads |->
                IF t = "recv" THEN "recv" ELSE IF t = "lsa" THEN "idle" ELSE "f_scan"]
    /\ pkt = [t \in Threads |-> NoPacket]
    /\ src = None
    /\ upd = NoPacket
    /\ ret = "none"
    /\ failed = <<>>
    /\ observed = [t \in Threads |-> {}]
    /\ todo = [t \in Threads |-> <<>>]
    /\ cur = [t \in Threads |-> NoCur]
    /\ sendq = NoSend
    /\ sent = {}
    /\ senderr = {}
    /\ cmdfail = [t \in Threads |-> {}]
    /\ got = NoPacket
    /\ nrecv = 0
    /\ nscans = 0
    /\ nthreads = 0
    /\ ackHello = {}
    /\ maxSeq = [r \in Ids |-> -2]
    /\ everRecognized = FALSE
    /\ fresh = {}
    /\ originated = <<>>
    /\ forwards = [k \in Others \X (1..MaxLsaSeq) |-> 0]
    /\ removals = [r \in Ids |-> 0]
    /\ declared = {}
    /\ peerDetected = {}
    /\ peerRecognized = {}
    /\ inbox = {}
    /\ netOrder = [u \in Ids |-> <<>>]
    /\ netRoutes = [u \in Ids |-> <<>>]
    /\ peerLsa = [sequence_number |-> 0, boots |-> 0]
    /\ running = None
    /\ npre = 0

\* the positions at which a thread waits: for a datagram (line 460), for its
\* start (line 400), in time.sleep (lines 370 and 637), or after its end
Blocked == {"recv", "idle", "l_create", "f_scan", "dead"}

\* thread t takes the step: it holds the interpreter, or the thread that held
\* it waits, or t preempts it
Sched(t) ==
    LET free == IF running = None \/ running = t THEN TRUE
                ELSE pc[running] \in Blocked
    IN /\ free \/ npre < MaxPreempt
       /\ npre' = IF free THEN npre ELSE npre + 1
       /\ running' = IF pc'[t] \in Blocked THEN None ELSE t

Goto(t, label) == pc' = [pc EXCEPT ![t] = label]

\* a step that begins and completes no LSDB.update call and sends nothing
Quiet ==
    upd' = NoPacket /\ ret' = "none" /\ sent' = {} /\ senderr' = {} /\ got' = NoPacket

\* the thread-local variables of update / recalculate_routes are released
Release(t) ==
    /\ pkt' = [pkt EXCEPT ![t] = NoPacket]
    /\ observed' = [observed EXCEPT ![t] = {}]
    /\ todo' = [todo EXCEPT ![t] = <<>>]
    /\ cur' = [cur EXCEPT ![t] = NoCur]
    /\ cmdfail' = [cmdfail EXCEPT ![t] = {}]
    /\ src' = IF t = "recv" THEN None ELSE src

\* an uncaught exception: the receiver logs it and reads the next datagram
\* (lines 478-479); the LSA sender and the failure detector have no handler
\* and their thread ends
Raise(t) ==
    /\ Goto(t, IF t = "recv" THEN "recv" ELSE "dead")
    /\ Release(t)
    /\ ret' = IF t = "fd" THEN "none" ELSE "raise"
    /\ upd' = NoPacket
    /\ sent' = {} /\ senderr' = {}
    /\ got' = NoPacket
    /\ UNCHANGED <<sendq, failed>>

\* ----------------------------------------------------- the wall clock
Tick ==
    /\ now < MaxTicks * TickStep
    /\ now' = now + TickStep
    /\ UNCHANGED <<running, npre>>
    /\ Quiet
    /\ UNCHANGED <<neigh, lsdb, lsa, locals, bounds, pc, ackHello, hist, peer, maxSeq,
                   everRecognized, fresh>>

\* ------------------------------------- LSDB.update / recalculate_routes
\* (run by the receiver for a received LSA, by the LSA sender for its own
\* LSA, and from recalculate_routes on by the failure detector)

\* variant: lines 91-92 only for a router that has no entry or a placeholder
UpdateStoreNew(t, packet) ==
    /\ table' = IF packet.router_id \in DOMAIN table /\ table[packet.router_id] # Placeholder
                THEN table ELSE StoreEntry(table, packet)
    /\ torder' = OrderPut(torder, packet.router_id)
    /\ maxSeq' = [maxSeq EXCEPT ![packet.router_id] =
                     IF packet.sequence_number > @ THEN packet.sequence_number ELSE @]
    /\ pkt' = [pkt EXCEPT ![t] = packet]
    /\ observed' = [observed EXCEPT ![t] = DOMAIN packet.links]
    /\ UNCHANGED cmdfail
    /\ Goto(t, "u_place")

\* LSDB.update, lines 82-96, for a packet that is not stale
UpdateStore(t, packet) ==
    /\ table' = StoreEntry(table, packet)
    /\ torder' = OrderPut(torder, packet.router_id)
    /\ maxSeq' = [maxSeq EXCEPT ![packet.router_id] =
                     IF packet.sequence_number > @ THEN packet.sequence_number ELSE @]
    /\ pkt' = [pkt EXCEPT ![t] = packet]
    /\ observed' = [observed EXCEPT ![t] = DOMAIN packet.links]
    /\ UNCHANGED cmdfail
    /\ Goto(t, "u_place")

\* LSDB.recalculate_routes, lines 192-195
RecalcPlaceholders(t) ==
    /\ pc[t] = "u_place"
    /\ table' = AddPlaceholders(table, observed[t])
    /\ torder' = OrderPlaceholders(torder, observed[t])
    /\ maxSeq' = [r \in Ids |->
                     IF r \in observed[t] \ DOMAIN table /\ maxSeq[r] < PlaceholderSeq
                     THEN PlaceholderSeq ELSE maxSeq[r]]
    /\ observed' = [observed EXCEPT ![t] = {}]
    /\ UNCHANGED cmdfail
    /\ Goto(t, "u_spf")
    /\ Quiet
    /\ UNCHANGED <<now, neigh, routing_table, kernel, lsa, pkt, src, failed, todo, cur,
                   sendq, bounds, ackHello, hist, peer, everRecognized, fresh>>

\* the items of a routing table in key order (line 158, line 164); the items
\* that line 166 skips in every state (the router itself, a next hop None)
\* are left out
Items(rt) ==
    LET keys == Sorted({d \in DOMAIN rt : d # Self /\ rt[d] # None})
    IN [i \in 1..Len(keys) |-> <<keys[i], rt[keys[i]]>>]

\* LSDB.recalculate_routes, lines 198-200, and the snapshot of line 164
RecalcSpf(t) ==
    /\ pc[t] = "u_spf"
    /\ \E r \in {dijkstra(table, torder)} :
          IF r.ok
          THEN /\ routing_table' = update_next_hop(routing_table, r.paths)
               /\ todo' = [todo EXCEPT ![t] = Items(routing_table')]
               /\ Goto(t, "i_next")
               /\ Quiet
               /\ UNCHANGED <<pkt, src, observed, cmdfail, cur, sendq, failed>>
          ELSE /\ Raise(t)
               /\ UNCHANGED routing_table
    /\ UNCHANGED <<now, neigh, table, torder, kernel, lsa, bounds, ackHello, hist, peer, maxSeq,
                   everRecognized, fresh>>

\* variant: lines 384-385 without the test ip != sender_ip
ForwardListAll(sender_ip) ==
    DOMAIN recognized

\* the neighbors an accepted LSA is forwarded to, lines 384-385
ForwardList(sender_ip) ==
    {n \in DOMAIN recognized : recognized[n] # sender_ip}

\* the datagram sendto hands to the network: json.dumps(packet) and the
\* address it goes to (lines 361, 365, 381, 389)
Datagram(ip, packet) ==
    [to |-> ip, type |-> packet.type, router_id |-> packet.router_id,
     timestamp |-> packet.timestamp, addresses |-> packet.addresses,
     sequence_number |-> packet.sequence_number, links |-> packet.links]

\* update_routes has returned.  The receiver returns True from LSDB.update
\* and forwards the packet (lines 98, 589-590, 380-392); the LSA sender starts
\* the iteration over _neighbors_ip (lines 361-363); the failure detector
\* sleeps and begins its next scan (line 637)
Finish(t) ==
    IF t = "recv"
    THEN /\ ret' = "true"
         /\ upd' = NoPacket
         /\ sent' = {Datagram(recognized[n], pkt[t]) : n \in ForwardList(src)}
         /\ senderr' \in SUBSET sent'
         /\ got' = NoPacket
         /\ Goto(t, "recv")
         /\ Release(t)
         /\ UNCHANGED <<sendq, failed>>
    ELSE IF t = "lsa"
    THEN /\ sendq' = [size |-> Cardinality(DOMAIN recognized)]
         /\ Goto(t, "l_iter")
         /\ ret' = "true"
         /\ upd' = NoPacket
         /\ sent' = {} /\ senderr' = {}
         /\ got' = NoPacket
         /\ cmdfail' = [cmdfail EXCEPT ![t] = {}]
         /\ UNCHANGED <<pkt, src, observed, todo, cur, failed>>
    ELSE /\ Goto(t, "f_scan")
         /\ Release(t)
         /\ Quiet
         /\ UNCHANGED <<sendq, failed>>

\* LSDB.update_routes, line 166: the gateway can be resolved
GatewayKnown(gateway_router) == gateway_router \in DOMAIN recognized

\* LSDB.update_routes, lines 164-171: next item of the snapshot
InstallNext(t) ==
    /\ pc[t] = "i_next"
    /\ IF todo[t] = <<>>
       THEN Finish(t)
       ELSE LET dest_router == Head(todo[t])[1]
                gateway_router == Head(todo[t])[2]
            IN IF dest_router # Self /\ GatewayKnown(gateway_router)
               THEN IF dest_router \in DOMAIN table
                    THEN /\ todo' = [todo EXCEPT ![t] = Tail(@)]
                         /\ cur' = [cur EXCEPT ![t] =
                                       [dest |-> dest_router, gw |-> gateway_router,
                                        addrs |-> table[dest_router].addresses,
                                        ip |-> None]]
                         /\ Goto(t, IF table[dest_router].addresses = <<>>
                                    THEN "i_next" ELSE "i_read")
                         /\ Quiet
                         /\ UNCHANGED <<pkt, observed, cmdfail, src, sendq, failed>>
                    ELSE Raise(t)
               ELSE /\ todo' = [todo EXCEPT ![t] = Tail(@)]
                    /\ Quiet
                    /\ UNCHANGED <<pc, cur, pkt, observed, cmdfail, src, sendq, failed>>
    /\ forwards' = IF t = "recv" /\ sent' # {}
                   THEN [forwards EXCEPT
                            ![<<pkt[t].router_id, pkt[t].sequence_number>>] = @ + 1]
                   ELSE forwards
    /\ UNCHANGED <<now, neigh, lsdb, lsa, bounds, ackHello, maxSeq, everRecognized,
                   fresh, removals, declared, peer>>

\* LSDB.update_routes, line 172
InstallRead(t) ==
    /\ pc[t] = "i_read"
    /\ IF cur[t].gw \in DOMAIN recognized
       THEN /\ cur' = [cur EXCEPT ![t].ip = recognized[cur[t].gw]]
            /\ Goto(t, "i_run")
            /\ Quiet
            /\ UNCHANGED <<pkt, observed, cmdfail, todo, src, sendq, failed>>
       ELSE Raise(t)
    /\ UNCHANGED <<now, neigh, lsdb, lsa, bounds, ackHello, hist, peer, maxSeq, everRecognized,
                   fresh>>

\* the rest of the address loop of lines 171-182
InstallAdvance(t) ==
    /\ cur' = [cur EXCEPT ![t].addrs = Tail(@), ![t].ip = None]
    /\ Goto(t, IF Len(cur[t].addrs) > 1 THEN "i_read" ELSE "i_next")

\* the kernel routing table after "ip route replace <dest_ip> via <gateway_ip>"
RouteReplace(routes, dest_ip, gateway_ip) == Put(routes, dest_ip, gateway_ip)

\* LSDB.update_routes, lines 174-179: the route command succeeds
InstallRun(t) ==
    /\ pc[t] = "i_run"
    /\ kernel' = RouteReplace(kernel, Head(cur[t].addrs), cur[t].ip)
    /\ InstallAdvance(t)
    /\ Quiet
    /\ UNCHANGED <<now, neigh, table, torder, routing_table, lsa, pkt, src, failed,
                   observed, cmdfail, todo, sendq, bounds, ackHello, hist, peer, maxSeq, everRecognized,
                   fresh>>

\* variant: the CalledProcessError of line 177 is not caught at line 180
InstallFailUncaught(t) ==
    /\ pc[t] = "i_run"
    /\ cmdfail' = [cmdfail EXCEPT ![t] = @ \cup {Head(cur[t].addrs)}]
    /\ Goto(t, IF t = "recv" THEN "recv" ELSE "dead")
    /\ pkt' = [pkt EXCEPT ![t] = NoPacket]
    /\ observed' = [observed EXCEPT ![t] = {}]
    /\ todo' = [todo EXCEPT ![t] = <<>>]
    /\ cur' = [cur EXCEPT ![t] = NoCur]
    /\ src' = IF t = "recv" THEN None ELSE src
    /\ ret' = IF t = "fd" THEN "none" ELSE "raise"
    /\ upd' = NoPacket /\ sent' = {} /\ senderr' = {} /\ got' = NoPacket
    /\ UNCHANGED <<now, neigh, lsdb, lsa, failed, sendq, bounds, ackHello, hist, peer,
                   maxSeq, everRecognized, fresh>>

\* LSDB.update_routes, lines 176-182: subprocess.run raises CalledProcessError
\* (the route command ran and failed), which is logged
InstallFail(t) ==
    /\ pc[t] = "i_run"
    /\ cmdfail' = [cmdfail EXCEPT ![t] = @ \cup {Head(cur[t].addrs)}]
    /\ InstallAdvance(t)
    /\ Quiet
    /\ UNCHANGED <<now, neigh, lsdb, lsa, pkt, src, failed, observed, todo, sendq,
                   bounds, ackHello, hist, peer, maxSeq, everRecognized, fresh>>

\* ------------------------------------------------ the packet receiver
\* the datagrams the socket may deliver: HELLOs stamped with the sender's
\* clock, LSAs of the other routers, and the router's own broadcast coming back
Hellos ==
    {HelloPacket(r, now, k) : r \in Others, k \in {{}, {Self}}}
Lsas ==
    UNION {{LsaPacket(r, s, ts, AddrOf[r], l) :
               s \in 1..MaxLsaSeq, ts \in 1..MaxLsaTime, l \in LinkMaps(r)} :
           r \in Others}
OwnPackets ==
    {HelloPacket(Self, now, {})} \cup
    {LsaPacket(Self, s, 0, interfaces, <<>>) : s \in 1..MaxOwnSeq}

\* recvfrom returns one more datagram, of at most limit (line 460)
Delivered(limit) ==
    /\ nrecv < limit
    /\ nrecv' = nrecv + 1
    /\ UNCHANGED peer

\* Router.receive_packets, lines 460-473, and process_hello, lines 568-570:
\* a HELLO that arrives from one of the addresses ips[router_id] of its sender
ReceiveHelloVia(packets, ips) ==
    /\ pc["recv"] = "recv"
    /\ \E packet \in packets : \E address \in ips[packet.router_id] :
         /\ pkt' = [pkt EXCEPT !["recv"] = packet]
         /\ src' = address
         /\ detected' = Put(detected, packet.router_id, get_cost(packet.router_id))
         /\ ackHello' = IF packet.known_neighbors # NoList /\ Self \in packet.known_neighbors
                        THEN ackHello \cup {packet.router_id} ELSE ackHello
         /\ got' = packet
    /\ Goto("recv", "h_ts")
    /\ upd' = NoPacket /\ ret' = "none" /\ sent' = {} /\ senderr' = {}
    /\ UNCHANGED <<now, recognized, hello_timestamps, lsdb, lsa, failed, observed, cmdfail, todo,
                   cur, sendq, nscans, maxSeq, everRecognized, fresh, hist>>

\* the same, every neighbor sending from its address on the shared link
ReceiveHelloOf(packets) ==
    ReceiveHelloVia(packets, [n \in Ids |-> {IPOf[n]}])

ReceiveHello == Delivered(MaxRecv) /\ ReceiveHelloOf(Hellos)

\* variant: receive_packets without the test of line 465, the packet of the
\* router itself is handed to process_hello
ReceiveOwnUnfiltered(packets) ==
    ReceiveHelloOf(packets)

\* Router.receive_packets, lines 460-466: a packet of the router itself
ReceiveOwnFrom(packets) ==
    /\ pc["recv"] = "recv"
    /\ \E packet \in packets :
         /\ packet.router_id = Self
         /\ got' = packet
    /\ upd' = NoPacket /\ ret' = "none" /\ sent' = {} /\ senderr' = {}
    /\ UNCHANGED <<now, neigh, lsdb, lsa, locals, nscans, pc, ackHello, hist, maxSeq,
                   everRecognized, fresh>>

ReceiveOwn == Delivered(MaxRecv) /\ ReceiveOwnFrom(OwnPackets)

\* variant: line 573 is followed by the insertion of a placeholder for the
\* sender into the LSDB
HelloTimestampLearn ==
    /\ pc["recv"] = "h_ts"
    /\ hello_timestamps' =
          Put(hello_timestamps, pkt["recv"].router_id, pkt["recv"].timestamp)
    /\ table' = AddPlaceholders(table, {pkt["recv"].router_id})
    /\ torder' = OrderPlaceholders(torder, {pkt["recv"].router_id})
    /\ Goto("recv", "h_recog")
    /\ Quiet
    /\ UNCHANGED <<now, detected, recognized, routing_table, kernel, lsa, locals, bounds,
                   ackHello, hist, peer, maxSeq, everRecognized, fresh>>

\* NeighborManager.process_hello, lines 571-573
HelloTimestamp ==
    /\ pc["recv"] = "h_ts"
    /\ hello_timestamps' =
          Put(hello_timestamps, pkt["recv"].router_id, pkt["recv"].timestamp)
    /\ Goto("recv", "h_recog")
    /\ Quiet
    /\ UNCHANGED <<now, detected, recognized, lsdb, lsa, locals, bounds, ackHello, hist, peer,
                   maxSeq, everRecognized, fresh>>

\* variant: start() without the test of line 398
StartLsaAgain(label) ==
    /\ started' = TRUE
    /\ nthreads' = nthreads + 1
    /\ pc' = [pc EXCEPT !["recv"] = label, !["lsa"] = "l_create"]

\* LSASender.start, lines 398-402: the new value of <<started, nthreads, pc>>
StartLsa(label) ==
    IF ~started
    THEN /\ started' = TRUE
         /\ nthreads' = nthreads + 1
         /\ pc' = [pc EXCEPT !["recv"] = label, !["lsa"] = "l_create"]
    ELSE /\ UNCHANGED <<started, nthreads>>
         /\ Goto("recv", label)

\* variant: line 576 without the test of known_neighbors
PromotesUnilateral(packet) ==
    packet.router_id \notin DOMAIN recognized

\* the condition of line 576
Promotes(packet) ==
    /\ Self \in packet.known_neighbors
    /\ packet.router_id \notin DOMAIN recognized

\* variant: line 578 outside the if of line 576
HelloRecognizeEager ==
    /\ pc["recv"] = "h_recog"
    /\ pkt["recv"].known_neighbors # NoList
    /\ LET sender_id == pkt["recv"].router_id
       IN /\ IF Promotes(pkt["recv"])
             THEN /\ recognized' = Put(recognized, sender_id, src)
                  /\ everRecognized' = TRUE
                  /\ fresh' = fresh \cup {sender_id}
             ELSE UNCHANGED <<recognized, everRecognized, fresh>>
          /\ StartLsa("recv")
    /\ pkt' = [pkt EXCEPT !["recv"] = NoPacket]
    /\ src' = None
    /\ Quiet
    /\ UNCHANGED <<now, detected, hello_timestamps, lsdb, sequence_number, originated,
                   failed, observed, cmdfail, todo, cur, sendq, bounds, ackHello, hist, peer, maxSeq>>

\* variant: the address recorded is the sender's address on the shared link,
\* whatever address the HELLO came from
SenderIpPrimary ==
    IPOf[pkt["recv"].router_id]

\* the argument sender_ip of process_hello: address[0] of the datagram (line 467)
SenderIp ==
    src

\* NeighborManager.process_hello, lines 576-578
HelloRecognize ==
    /\ pc["recv"] = "h_recog"
    /\ pkt["recv"].known_neighbors # NoList
    /\ LET sender_id == pkt["recv"].router_id
       IN IF Promotes(pkt["recv"])
          THEN /\ recognized' = Put(recognized, sender_id, SenderIp)
               /\ StartLsa("recv")
               /\ everRecognized' = TRUE
               /\ fresh' = fresh \cup {sender_id}
          ELSE /\ Goto("recv", "recv")
               /\ UNCHANGED <<recognized, started, nthreads, everRecognized, fresh>>
    /\ pkt' = [pkt EXCEPT !["recv"] = NoPacket]
    /\ src' = None
    /\ Quiet
    /\ UNCHANGED <<now, detected, hello_timestamps, lsdb, sequence_number, originated,
                   failed, observed, cmdfail, todo, cur, sendq, bounds, ackHello, hist, peer, maxSeq>>

\* variant: process_lsa forwards the packet without the test of line 589
ReceiveLsaOfAlways(packets) ==
    /\ pc["recv"] = "recv"
    /\ \E packet \in packets, sender_ip \in {IPOf["R2"]} :
         /\ got' = packet
         /\ upd' = packet
         /\ IF IsStale(table, packet)
            THEN /\ ret' = "false"
                 /\ sent' = {Datagram(recognized[n], packet) : n \in ForwardList(sender_ip)}
                 /\ senderr' \in SUBSET sent'
                 /\ forwards' = IF sent' # {}
                                THEN [forwards EXCEPT
                                         ![<<packet.router_id, packet.sequence_number>>] = @ + 1]
                                ELSE forwards
                 /\ UNCHANGED <<table, torder, maxSeq, pkt, observed, cmdfail, pc, src>>
            ELSE /\ UpdateStore("recv", packet)
                 /\ src' = sender_ip
                 /\ ret' = "none"
                 /\ sent' = {} /\ senderr' = {}
                 /\ UNCHANGED forwards
    /\ UNCHANGED <<now, neigh, routing_table, kernel, lsa, failed, todo, cur, sendq,
                   nscans, ackHello, removals, declared, everRecognized, fresh>>

\* Router.receive_packets, lines 460-476, process_lsa, line 588, and
\* LSDB.update, lines 82-96
ReceiveLsaOf(packets) ==
    /\ pc["recv"] = "recv"
    /\ \E packet \in packets, sender_ip \in {IPOf["R2"]} :
         /\ got' = packet
         /\ upd' = packet
         /\ IF IsStale(table, packet)
            THEN /\ ret' = "false"
                 /\ UNCHANGED <<table, torder, maxSeq, pkt, observed, cmdfail, pc, src>>
            ELSE /\ UpdateStore("recv", packet)
                 /\ src' = sender_ip
                 /\ ret' = "none"
    /\ sent' = {} /\ senderr' = {}
    /\ UNCHANGED <<now, neigh, routing_table, kernel, lsa, failed, todo, cur, sendq,
                   nscans, ackHello, hist, everRecognized, fresh>>

ReceiveLsa == Delivered(MaxRecv) /\ ReceiveLsaOf(Lsas)

\* --------------------------------------------------- the LSA sender
\* LSASender.create_packet, lines 343-351
create_packet ==
    LsaPacket(Self, sequence_number + 1, now, interfaces, detected)

\* LSASender.send_to_neighbors, lines 359-360, and LSDB.update, lines 82-96
LsaCreate ==
    /\ pc["lsa"] = "l_create"
    /\ sequence_number < MaxOwnSeq
    /\ sequence_number' = sequence_number + 1
    /\ originated' = Append(originated, create_packet.sequence_number)
    /\ fresh' = {}
    /\ upd' = create_packet
    /\ sent' = {} /\ senderr' = {}
    /\ got' = NoPacket
    /\ IF IsStale(table, create_packet)
       THEN /\ ret' = "false"
            /\ pkt' = [pkt EXCEPT !["lsa"] = create_packet]
            /\ sendq' = [size |-> Cardinality(DOMAIN recognized)]
            /\ Goto("lsa", "l_iter")
            /\ UNCHANGED <<table, torder, maxSeq, observed, cmdfail, src, todo, cur, failed>>
       ELSE /\ UpdateStore("lsa", create_packet)
            /\ ret' = "none"
            /\ UNCHANGED <<src, sendq, todo, cur, failed>>
    /\ UNCHANGED <<now, neigh, routing_table, kernel, started, nthreads, bounds,
                   ackHello, hist, peer, everRecognized>>

\* LSASender.send_to_neighbors, lines 363-370: the iterations of the loop,
\* taken together; a dict that changed size since the iteration began raises
\* RuntimeError, which ends the thread
LsaSendNext ==
    /\ pc["lsa"] = "l_iter"
    /\ IF Cardinality(DOMAIN recognized) # sendq.size
       THEN /\ Goto("lsa", "dead")
            /\ sent' = {} /\ senderr' = {}
       ELSE /\ Goto("lsa", "l_create")
            /\ sent' = {Datagram(recognized[n], pkt["lsa"]) : n \in DOMAIN recognized}
            /\ senderr' \in SUBSET sent'
    /\ pkt' = [pkt EXCEPT !["lsa"] = NoPacket]
    /\ sendq' = NoSend
    /\ ret' = "none"
    /\ upd' = NoPacket
    /\ got' = NoPacket
    /\ UNCHANGED <<now, neigh, lsdb, lsa, src, failed, observed, cmdfail, todo, cur, bounds,
                   ackHello, hist, peer, maxSeq, everRecognized, fresh>>

\* ------------------------------------------------ the failure detector
\* NeighborManager.check_failures, lines 619-622
FailedRouters ==
    {router_id \in DOMAIN hello_timestamps :
        (now - hello_timestamps[router_id]) > (hello_interval * tolerance)}

\* NeighborManager.check_failures, lines 618-622: one more iteration begins
ScanOnce ==
    /\ pc["fd"] = "f_scan"
    /\ failed' = Sorted(FailedRouters)
    /\ observed' = [observed EXCEPT !["fd"] = FailedRouters]
    /\ UNCHANGED cmdfail
    /\ declared' = FailedRouters
    /\ Goto("fd", IF FailedRouters = {} THEN "u_spf" ELSE "f_del_det")
    /\ Quiet
    /\ UNCHANGED <<now, neigh, lsdb, lsa, pkt, src, todo, cur, sendq, nrecv, ackHello,
                   forwards, removals, peer, maxSeq, everRecognized, fresh>>

\* one of the MaxScans iterations of check_failures
FailScan ==
    /\ nscans < MaxScans
    /\ nscans' = nscans + 1
    /\ ScanOnce

\* NeighborManager.check_failures, lines 627-628
FailDelDetected ==
    /\ pc["fd"] = "f_del_det"
    /\ detected' = Del(detected, Head(failed))
    /\ Goto("fd", "f_del_rec")
    /\ Quiet
    /\ UNCHANGED <<now, recognized, hello_timestamps, lsdb, lsa, locals, bounds,
                   ackHello, hist, peer, maxSeq, everRecognized, fresh>>

\* variant: line 631 empties _recognized_neighbors
FailDelRecognizedAll ==
    /\ pc["fd"] = "f_del_rec"
    /\ recognized' = <<>>
    /\ fresh' = {}
    /\ Goto("fd", "f_del_tab")
    /\ Quiet
    /\ UNCHANGED <<now, detected, hello_timestamps, lsdb, lsa, locals, bounds, ackHello, hist, peer,
                   maxSeq, everRecognized>>

\* NeighborManager.check_failures, lines 630-631
FailDelRecognized ==
    /\ pc["fd"] = "f_del_rec"
    /\ recognized' = Del(recognized, Head(failed))
    /\ fresh' = IF Head(failed) \in DOMAIN recognized THEN fresh \ {Head(failed)} ELSE fresh
    /\ Goto("fd", "f_del_tab")
    /\ Quiet
    /\ UNCHANGED <<now, detected, hello_timestamps, lsdb, lsa, locals, bounds, ackHello, hist, peer,
                   maxSeq, everRecognized>>

\* NeighborManager.check_failures, lines 633-634 and the loop of line 624
FailDelTable ==
    /\ pc["fd"] = "f_del_tab"
    /\ table' = Del(table, Head(failed))
    /\ torder' = RemoveSeq(torder, Head(failed))
    /\ failed' = Tail(failed)
    /\ Goto("fd", IF Tail(failed) = <<>> THEN "u_place" ELSE "f_del_det")
    /\ Quiet
    /\ removals' = IF Head(failed) \in DOMAIN table
                   THEN [removals EXCEPT ![Head(failed)] = @ + 1] ELSE removals
    /\ UNCHANGED <<now, neigh, routing_table, kernel, lsa, pkt, src, observed, cmdfail, todo,
                   cur, sendq, bounds, ackHello, maxSeq, everRecognized, fresh,
                   forwards, declared, peer>>

Next ==
    \/ Tick
    \/ ReceiveOwn /\ Sched("recv")
    \/ ReceiveHello /\ Sched("recv")
    \/ HelloTimestamp /\ Sched("recv")
    \/ HelloRecognize /\ Sched("recv")
    \/ ReceiveLsa /\ Sched("recv")
    \/ \E t \in Threads : RecalcPlaceholders(t) /\ Sched(t)
    \/ \E t \in Threads : RecalcSpf(t) /\ Sched(t)
    \/ \E t \in Threads : InstallNext(t) /\ Sched(t)
    \/ \E t \in Threads : InstallRead(t) /\ Sched(t)
    \/ \E t \in Threads : InstallRun(t) /\ Sched(t)
    \/ \E t \in Threads : InstallFail(t) /\ Sched(t)
    \/ LsaCreate /\ Sched("lsa")
    \/ LsaSendNext /\ Sched("lsa")
    \/ FailScan /\ Sched("fd")
    \/ FailDelDetected /\ Sched("fd")
    \/ FailDelRecognized /\ Sched("fd")
    \/ FailDelTable /\ Sched("fd")

Spec == Init /\ [][Next]_vars

\* ------------------------------------ malformed datagrams
\* HELLOs that lack the field known_neighbors: packet.get returns None
BadHellos == {HelloPacket(r, now, NoList) : r \in Others}

ReceiveBadHello == Delivered(MaxRecv) /\ ReceiveHelloOf(BadHellos)

\* NeighborManager.process_hello, line 576, for known_neighbors = None: the
\* test `in` raises TypeError, which line 478 catches
HelloTypeError ==
    /\ pc["recv"] = "h_recog"
    /\ pkt["recv"].known_neighbors = NoList
    /\ Raise("recv")
    /\ UNCHANGED <<now, neigh, lsdb, lsa, failed, sendq, bounds, ackHello, hist, peer,
                   maxSeq, everRecognized, fresh>>

NextBad ==
    \/ Next
    \/ ReceiveBadHello /\ Sched("recv")
    \/ HelloTypeError /\ Sched("recv")

SpecBad == Init /\ [][NextBad]_vars

\* ------------------------------------ failures under fair scheduling
\* the steps of thread t other than the return of recvfrom
ThreadSteps(t) ==
    \/ RecalcPlaceholders(t) /\ Sched(t)
    \/ RecalcSpf(t) /\ Sched(t)
    \/ InstallNext(t) /\ Sched(t)
    \/ InstallRead(t) /\ Sched(t)
    \/ InstallRun(t) /\ Sched(t)
    \/ InstallFail(t) /\ Sched(t)
    \/ t = "recv" /\ HelloTimestamp /\ Sched(t)
    \/ t = "recv" /\ HelloRecognize /\ Sched(t)
    \/ t = "lsa" /\ LsaCreate /\ Sched(t)
    \/ t = "lsa" /\ LsaSendNext /\ Sched(t)
    \/ t = "fd" /\ FailScan /\ Sched(t)
    \/ t = "fd" /\ FailDelDetected /\ Sched(t)
    \/ t = "fd" /\ FailDelRecognized /\ Sched(t)
    \/ t = "fd" /\ FailDelTable /\ Sched(t)

\* the behaviours of Spec in which every thread that can run does run
SpecFair == Spec /\ \A t \in Threads : WF_vars(ThreadSteps(t))

\* the steps of thread t inside LSDB.update / recalculate_routes; every route
\* command succeeds
UpdateSteps(t) ==
    \/ RecalcPlaceholders(t) /\ Sched(t)
    \/ RecalcSpf(t) /\ Sched(t)
    \/ InstallNext(t) /\ Sched(t)
    \/ InstallRead(t) /\ Sched(t)
    \/ InstallRun(t) /\ Sched(t)

\* ------------------------------------ a network without failures
\* the router in the middle of the chain R2 - R1 - R3: no neighbor falls
\* silent (the clock does not run ahead of the HELLOs), every datagram is
\* delivered any number of times, every thread keeps running

\* HelloSender.create_packet in router r, a neighbor that has detected the
\* router: its HELLO lists the router
LiveHellos(r) == {HelloPacket(r, now, {Self})}

\* LSASender.create_packet in router r: its first LSA; in the chain its only
\* link is the one to the router
LiveLsas(r) ==
    {LsaPacket(r, 1, ts, AddrOf[r], [n \in {Self} |-> c]) :
        ts \in 1..MaxLsaTime, c \in LinkCosts}

\* HelloSender.send_to_all_neighbors, lines 261-277, and
\* LSASender.send_to_neighbors, lines 363-370, in the neighbors: one more
\* period, every neighbor sends its HELLO and its LSA
PeriodDatagrams == Others \X {"HELLO", "LSA"}
LiveSend ==
    /\ inbox = {}
    /\ inbox' = PeriodDatagrams
    /\ Quiet
    /\ UNCHANGED <<now, neigh, lsdb, lsa, locals, bounds, pc, ackHello, hist,
                   peerDetected, peerRecognized, netOrder, netRoutes, peerLsa, maxSeq,
                   everRecognized, fresh,
                   running, npre>>

\* the datagram of kind type of router r leaves the socket buffer
Taken(r, type) ==
    /\ <<r, type>> \in inbox
    /\ inbox' = inbox \ {<<r, type>>}
    /\ UNCHANGED <<nrecv, peerDetected, peerRecognized, netOrder, netRoutes, peerLsa>>

LiveReceiveHello(r) == Taken(r, "HELLO") /\ ReceiveHelloOf(LiveHellos(r))
LiveReceiveLsa(r) == Taken(r, "LSA") /\ ReceiveLsaOf(LiveLsas(r))

\* the steps of the receiver thread
LiveRecv ==
    \/ \E r \in Others : LiveReceiveHello(r) /\ Sched("recv")
    \/ \E r \in Others : LiveReceiveLsa(r) /\ Sched("recv")
    \/ HelloTimestamp /\ Sched("recv")
    \/ HelloRecognize /\ Sched("recv")
    \/ UpdateSteps("recv")

\* the steps of the LSA sender thread
LiveLsa ==
    \/ LsaCreate /\ Sched("lsa")
    \/ LsaSendNext /\ Sched("lsa")
    \/ UpdateSteps("lsa")

\* the steps of the failure detector thread: no neighbor falls silent
LiveFd ==
    \/ FailScan /\ Sched("fd")
    \/ UpdateSteps("fd")

NextLive ==
    \/ LiveSend
    \/ LiveRecv
    \/ LiveLsa
    \/ LiveFd

\* the neighbors keep sending, every datagram sent is delivered, and every
\* thread that can run does run; the receiver never stops, so that the LSA
\* sender can run again and again without being able to run all the time
Fairness ==
    /\ WF_vars(LiveSend)
    /\ WF_vars(LiveRecv)
    /\ SF_vars(LiveLsa)
    /\ WF_vars(LiveFd)

SpecLive == Init /\ [][NextLive]_vars /\ Fairness

\* ------------------------------------ the HELLO handshake on its own
\* the router and its neighbors exchange HELLOs only: no LSA reaches the
\* router; a neighbor r is described by what its process_hello has stored

\* HelloSender.send_to_all_neighbors, lines 261-272, in the router and
\* process_hello, lines 568-578, in router r: r processes a HELLO of the
\* router, which lists the keys of the router's NeighborCost
PeerHello(r) ==
    /\ peerDetected' = peerDetected \cup {r}
    /\ peerRecognized' = IF r \in DOMAIN detected
                         THEN peerRecognized \cup {r} ELSE peerRecognized
    /\ Quiet
    /\ UNCHANGED <<now, neigh, lsdb, lsa, locals, bounds, pc, ackHello, hist, inbox,
                   netOrder, netRoutes, peerLsa, maxSeq, everRecognized, fresh, running, npre>>

\* variant: create_packet of r with known_neighbors left empty
HandHellosEmpty(r) ==
    {HelloPacket(r, now, {})}

\* HelloSender.create_packet in router r, lines 243-249: its HELLO lists the
\* keys of its NeighborCost
HandHellos(r) ==
    {HelloPacket(r, now, IF r \in peerDetected THEN {Self} ELSE {})}

\* HelloSender.send_to_all_neighbors in the neighbors: one more HELLO period
HandSend ==
    /\ inbox = {}
    /\ inbox' = Others \X {"HELLO"}
    /\ Quiet
    /\ UNCHANGED <<now, neigh, lsdb, lsa, locals, bounds, pc, ackHello, hist,
                   peerDetected, peerRecognized, netOrder, netRoutes, peerLsa, maxSeq,
                   everRecognized, fresh,
                   running, npre>>

HandReceiveHello(r) == Taken(r, "HELLO") /\ ReceiveHelloOf(HandHellos(r))

\* the steps of the receiver thread
HandRecv ==
    \/ \E r \in Others : HandReceiveHello(r) /\ Sched("recv")
    \/ HelloTimestamp /\ Sched("recv")
    \/ HelloRecognize /\ Sched("recv")

\* the steps of thread t inside LSDB.update / recalculate_routes: the LSDB
\* holds the self entry and placeholders, which carry no address to install
HandUpdateSteps(t) ==
    \/ RecalcPlaceholders(t) /\ Sched(t)
    \/ RecalcSpf(t) /\ Sched(t)
    \/ InstallNext(t) /\ Sched(t)

\* the steps of the LSA sender thread
HandLsa ==
    \/ LsaCreate /\ Sched("lsa")
    \/ LsaSendNext /\ Sched("lsa")
    \/ HandUpdateSteps("lsa")

\* the steps of the failure detector thread: no neighbor falls silent
HandFd ==
    \/ FailScan /\ Sched("fd")
    \/ HandUpdateSteps("fd")

NextHand ==
    \/ \E r \in Others : PeerHello(r)
    \/ HandSend
    \/ HandRecv
    \/ HandLsa
    \/ HandFd

\* both sides keep broadcasting, every HELLO is delivered, every thread that
\* can run does run
FairHand ==
    /\ \A r \in Others : WF_vars(PeerHello(r))
    /\ WF_vars(HandSend)
    /\ WF_vars(HandRecv)
    /\ WF_vars(HandLsa)
    /\ WF_vars(HandFd)

SpecHand == Init /\ [][NextHand]_vars /\ FairHand

\* ------------------------------------ route computation on its own
\* recalculate_routes applied to every LSDB over Ids that holds the self
\* entry and an entry for every router named in a link (update and
\* recalculate_routes keep it so), with every order of the dict's keys

SpfCosts == {1, 2, 5}

\* the link maps an entry of router r can hold when the LSDB has the keys D
SpfLinks(r, D) == UNION {[S -> SpfCosts] : S \in SUBSET (D \ {r})}

SpfTables ==
    UNION {{[r \in D |-> create_entry(1, 0, AddrOf[r],
                            IF r = "R1" THEN l1 ELSE IF r = "R2" THEN l2 ELSE l3)] :
               l1 \in SpfLinks("R1", D), l2 \in SpfLinks("R2", D),
               l3 \in SpfLinks("R3", D)} :
           D \in {X \in SUBSET Ids : Self \in X}}

\* the orders in which a dict can hold the keys D
KeyOrders(D) == {ord \in [1..Cardinality(D) -> D] : Range(ord) = D}

\* a thread is about to run lines 198-202 of recalculate_routes
InitSpf ==
    /\ now = 0
    /\ detected = <<>>
    /\ recognized = <<>>
    /\ hello_timestamps = <<>>
    /\ table \in SpfTables
    /\ torder \in KeyOrders(DOMAIN table)
    /\ routing_table = <<>>
    /\ kernel = <<>>
    /\ sequence_number = 0
    /\ started = FALSE
    /\ pc = [t \in Threads |->
                IF t = "recv" THEN "recv" ELSE IF t = "lsa" THEN "idle" ELSE "u_spf"]
    /\ pkt = [t \in Threads |-> NoPacket]
    /\ src = None
    /\ upd = NoPacket
    /\ ret = "none"
    /\ failed = <<>>
    /\ observed = [t \in Threads |-> {}]
    /\ todo = [t \in Threads |-> <<>>]
    /\ cur = [t \in Threads |-> NoCur]
    /\ sendq = NoSend
    /\ sent = {}
    /\ senderr = {}
    /\ cmdfail = [t \in Threads |-> {}]
    /\ got = NoPacket
    /\ nrecv = 0
    /\ nscans = 0
    /\ nthreads = 0
    /\ ackHello = {}
    /\ maxSeq = [r \in Ids |-> IF r \in DOMAIN table THEN 1 ELSE -2]
    /\ everRecognized = FALSE
    /\ fresh = {}
    /\ originated = <<>>
    /\ forwards = [k \in Others \X (1..MaxLsaSeq) |-> 0]
    /\ removals = [r \in Ids |-> 0]
    /\ declared = {}
    /\ peerDetected = {}
    /\ peerRecognized = {}
    /\ inbox = {}
    /\ netOrder = [u \in Ids |-> <<>>]
    /\ netRoutes = [u \in Ids |-> <<>>]
    /\ peerLsa = [sequence_number |-> 0, boots |-> 0]
    /\ running = "fd"
    /\ npre = 0

NextSpf ==
    \/ RecalcSpf("fd") /\ Sched("fd")
    \/ InstallNext("fd") /\ Sched("fd")

SpecSpf == InitSpf /\ [][NextSpf]_vars

\* ------------------------------------ neighbors with a second address
\* the address of a neighbor's second interface: HelloSender broadcasts on
\* every interface (lines 264-272), so its HELLOs arrive from either address
Ip2Of == [n \in Ids |-> IF n = "R1" THEN "10.0.1.1"
                        ELSE IF n = "R2" THEN "10.0.1.2" ELSE "10.0.1.3"]

ReceiveHelloAnyIp ==
    /\ Delivered(MaxRecv)
    /\ ReceiveHelloVia(Hellos, [n \in Ids |-> {IPOf[n], Ip2Of[n]}])

NextIp ==
    \/ Next
    \/ ReceiveHelloAnyIp /\ Sched("recv")

SpecIp == Init /\ [][NextIp]_vars

\* ------------------------------------ link costs from the environment
\* NeighborManager.get_cost in a neighbor, lines 603-606: int() of whatever
\* CONNECTED_TO_ROUTER_<id> holds there, zero and negative numbers included
EnvCosts == {-1, 0, 1}

\* LSASender.create_packet in neighbor r, lines 343-351: the links are the
\* costs get_cost returned for the routers r has detected, here the router
CostLsas ==
    {LsaPacket(r, s, 1, AddrOf[r], [n \in {Self} |-> c]) :
        r \in Others, s \in 1..MaxLsaSeq, c \in EnvCosts}

ReceiveCostLsa == Delivered(MaxRecv) /\ ReceiveLsaOf(CostLsas)

NextCost ==
    \/ Next
    \/ ReceiveCostLsa /\ Sched("recv")

SpecCost == Init /\ [][NextCost]_vars

\* ------------------------------------ routes whose gateway is recognized late
\* the router in an environment in which no neighbor falls silent and every
\* route command succeeds: up to MaxFloodRecv datagrams, HELLOs of the
\* neighbors (R2 lists the router only in its later HELLOs) and the first LSA
\* of R2, forwarded by R3 before R2 has detected the router; the failure
\* detector iterates any number of times
RetryHellos ==
    {HelloPacket("R2", now, {}), HelloPacket("R2", now, {Self}),
     HelloPacket("R3", now, {Self})}
RetryLsas == {LsaPacket("R2", 1, 1, AddrOf["R2"], [n \in {"R3"} |-> 1])}

RetryReceiveHello == Delivered(MaxFloodRecv) /\ ReceiveHelloOf(RetryHellos)
RetryReceiveLsa == Delivered(MaxFloodRecv) /\ ReceiveLsaOf(RetryLsas)

\* NeighborManager.check_failures, lines 617-622: an iteration beyond the
\* first MaxScans
Rescan ==
    /\ nscans = MaxScans
    /\ UNCHANGED nscans
    /\ ScanOnce

\* the steps of thread t other than the return of recvfrom
RetrySteps(t) ==
    \/ UpdateSteps(t)
    \/ t = "recv" /\ HelloTimestamp /\ Sched(t)
    \/ t = "recv" /\ HelloRecognize /\ Sched(t)
    \/ t = "lsa" /\ LsaCreate /\ Sched(t)
    \/ t = "lsa" /\ LsaSendNext /\ Sched(t)
    \/ t = "fd" /\ FailScan /\ Sched(t)
    \/ t = "fd" /\ Rescan /\ Sched(t)

NextRetry ==
    \/ RetryReceiveHello /\ Sched("recv")
    \/ RetryReceiveLsa /\ Sched("recv")
    \/ \E t \in Threads : RetrySteps(t)

\* every thread that can run does run
SpecRetry == Init /\ [][NextRetry]_vars /\ \A t \in Threads : WF_vars(RetrySteps(t))

\* ------------------------------------ flooding of one LSA, more datagrams
\* the router in an environment that delivers up to MaxFloodRecv datagrams:
\* HELLOs of neighbors that list the router, copies of the first LSA of R2,
\* and the router's own broadcast
FloodHellos == {packet \in Hellos : Self \in packet.known_neighbors}
FloodLsas ==
    {packet \in Lsas : /\ packet.router_id = "R2"
                       /\ packet.sequence_number = 1
                       /\ DOMAIN packet.links = Ids \ {"R2"}}

FloodReceiveOwn == Delivered(MaxFloodRecv) /\ ReceiveOwnFrom(OwnPackets)
FloodReceiveHello == Delivered(MaxFloodRecv) /\ ReceiveHelloOf(FloodHellos)
FloodReceiveLsa == Delivered(MaxFloodRecv) /\ ReceiveLsaOf(FloodLsas)

NextFlood ==
    \/ Tick
    \/ FloodReceiveOwn /\ Sched("recv")
    \/ FloodReceiveHello /\ Sched("recv")
    \/ HelloTimestamp /\ Sched("recv")
    \/ HelloRecognize /\ Sched("recv")
    \/ FloodReceiveLsa /\ Sched("recv")
    \/ \E t \in Threads : RecalcPlaceholders(t) /\ Sched(t)
    \/ \E t \in Threads : RecalcSpf(t) /\ Sched(t)
    \/ \E t \in Threads : InstallNext(t) /\ Sched(t)
    \/ \E t \in Threads : InstallRead(t) /\ Sched(t)
    \/ \E t \in Threads : InstallRun(t) /\ Sched(t)
    \/ \E t \in Threads : InstallFail(t) /\ Sched(t)
    \/ LsaCreate /\ Sched("lsa")
    \/ LsaSendNext /\ Sched("lsa")
    \/ FailScan /\ Sched("fd")
    \/ FailDelDetected /\ Sched("fd")
    \/ FailDelRecognized /\ Sched("fd")
    \/ FailDelTable /\ Sched("fd")

SpecFlood == Init /\ [][NextFlood]_vars

\* ------------------------------------------------------------ properties

\* the entry LSDB.update stores for a packet
EntryOf(packet) ==
    [sequence_number |-> packet.sequence_number, timestamp |-> packet.timestamp,
     addresses |-> packet.addresses, links |-> packet.links]

\* the packet is not newer than the entry the LSDB holds for its origin
NotNewer(packet) ==
    /\ packet.router_id \in DOMAIN table
    /\ table[packet.router_id].sequence_number >= packet.sequence_number

\* C1: an LSDB.update call whose packet is not newer than the stored entry
\* of its origin returns false and leaves the LSDB, the routing table and the
\* kernel routes as they are.
C1_StaleIsNoOp ==
    [][(upd' # NoPacket /\ NotNewer(upd'))
          => /\ ret' = "false"
             /\ table' = table
             /\ torder' = torder
             /\ routing_table' = routing_table
             /\ kernel' = kernel]_vars

\* C1 witness: the LSA that is stored has just been fed again and refused
C1_Witness ==
    /\ ret = "false"
    /\ upd.router_id \in DOMAIN table
    /\ table[upd.router_id] = EntryOf(upd)

\* C2: an LSDB.update call whose packet is new or newer stores the packet's
\* entry, runs SPF and goes on to the install step, also when the LSDB has
\* no entry for the local router.
C2_NewerIsStoredAndRouted ==
    [][/\ (upd' # NoPacket /\ ~NotNewer(upd'))
             => table'[upd'.router_id] = EntryOf(upd')
       /\ \A t \in {"recv", "lsa"} :
             (pc[t] = "u_spf" /\ pc'[t] # "u_spf") => pc'[t] = "i_next"]_vars

\* C3 (as claimed): the stored sequence number of a router id is the highest
\* one ever stored for it.
C3_StoredIsHighest ==
    \A rid \in DOMAIN table : table[rid].sequence_number >= maxSeq[rid]

\* C3 (amended): the sequence number of an entry that stays in the LSDB is
\* lowered only by the insertion of a placeholder (line 195) over an entry
\* that another thread stored after the test of line 193, and an entry leaves
\* the LSDB only when the failure detector deletes the router it has
\* declared failed.
C3_LoweredOnlyByPlaceholder ==
    [][\A rid \in DOMAIN table :
          IF rid \in DOMAIN table'
          THEN \/ table'[rid].sequence_number >= table[rid].sequence_number
               \/ \E t \in Threads :
                     /\ pc[t] = "u_new"
                     /\ pc'[t] = "u_place"
                     /\ rid = Head(Sorted(observed[t]))
                     /\ table'[rid] = Placeholder
          ELSE /\ pc["fd"] = "f_del_tab"
               /\ pc'["fd"] # "f_del_tab" \/ failed' # failed
               /\ Head(failed) = rid]_vars

\* C3 witness: a router that had a real entry is back as a placeholder after
\* the failure detector deleted it
C3_Witness ==
    \E rid \in DOMAIN table :
        /\ table[rid].sequence_number = PlaceholderSeq
        /\ maxSeq[rid] >= 1
        /\ removals[rid] >= 1

\* C4: a recognized neighbor has sent a HELLO, processed by the router, that
\* listed the router among its known_neighbors.
C4_RecognizedWasAcknowledged ==
    DOMAIN recognized \subseteq ackHello

\* C4 witness: a neighbor is recognized
C4_Witness ==
    /\ DOMAIN recognized # {}
    /\ pc["recv"] = "recv"

\* C5: every recognized neighbor is a detected neighbor, in every state the
\* other threads can observe.
C5_RecognizedIsDetected ==
    DOMAIN recognized \subseteq DOMAIN detected

\* C6: every invocation of the route command uses the address that
\* NeighborIP holds, at that moment, for the next hop.
C6_InstallUsesCurrentNeighbor ==
    [][\A t \in Threads :
          (pc[t] = "i_run" /\ cur'[t] # cur[t])
             => /\ cur[t].gw \in DOMAIN recognized
                /\ cur[t].ip = recognized[cur[t].gw]]_vars

\* C7: every kernel route goes via the address of a neighbor that is
\* recognized now.
C7_RoutesViaRecognized ==
    \A dest_ip \in DOMAIN kernel :
        \E n \in DOMAIN recognized : recognized[n] = kernel[dest_ip]

\* C8 (as claimed): before the first recognition the router has built no
\* LSA, has sent none of its own and has no entry for itself in the LSDB.
C8_NoSelfEntryBeforeRecognition ==
    ~everRecognized =>
        /\ originated = <<>>
        /\ \A d \in sent : d.router_id # Self
        /\ Self \notin DOMAIN table

\* C8 (amended): before the first recognition the LSA sender is not started,
\* no LSA is built or sent, and an entry of the LSDB for the router itself
\* can only be a placeholder.
C8_DormantBeforeRecognition ==
    ~everRecognized =>
        /\ ~started
        /\ pc["lsa"] = "idle"
        /\ sequence_number = 0
        /\ originated = <<>>
        /\ \A d \in sent : d.router_id # Self
        /\ Self \in DOMAIN table => table[Self] = Placeholder

\* C8 witness: the router has stored and sent its first LSA, after a recognition
C8_Witness ==
    /\ everRecognized
    /\ Self \in DOMAIN table
    /\ table[Self].sequence_number = 1
    /\ \E d \in sent : d.router_id = Self

\* C9: start() creates at most one LSA sender thread, and the LSAs built
\* carry the sequence numbers 1, 2, 3, ... in this order.
C9_OneLoopConsecutiveNumbers ==
    /\ nthreads <= 1
    /\ sequence_number = Len(originated)
    /\ \A i \in 1..Len(originated) : originated[i] = i

\* C9 witness: two neighbors are recognized and two LSAs have been built
C9_Witness ==
    /\ Cardinality(DOMAIN recognized) = 2
    /\ Len(originated) = 2

\* C10: the LSA built first after a neighbor was recognized lists that
\* neighbor in its links.
C10_FirstLsaListsNewNeighbor ==
    [][(sequence_number' # sequence_number)
          => \A n \in fresh : n \in DOMAIN upd'.links]_vars


C12_ForwardedToOthersUnchanged ==
    [][(pc["recv"] = "i_next" /\ pc'["recv"] = "recv" /\ ret' = "true")
          => /\ {d.to : d \in sent'} =
                   {recognized[n] : n \in {m \in DOMAIN recognized : recognized[m] # src}}
             /\ \A d \in sent' :
                   /\ d.to # src
                   /\ d.type = pkt["recv"].type
                   /\ d.router_id = pkt["recv"].router_id
                   /\ d.sequence_number = pkt["recv"].sequence_number
                   /\ d.timestamp = pkt["recv"].timestamp
                   /\ d.addresses = pkt["recv"].addresses
                   /\ d.links = pkt["recv"].links]_vars

\* C12 witness: an accepted LSA of another router has just been forwarded to
\* a recognized neighbor
C12_Witness ==
    /\ ret = "true"
    /\ pc["recv"] = "recv"
    /\ \E d \in sent : d.router_id # Self /\ d.to \in {recognized[n] : n \in DOMAIN recognized}


Converged ==
    \A v \in Others :
        /\ v \in DOMAIN table
        /\ table[v].sequence_number # PlaceholderSeq
        /\ v \in DOMAIN routing_table
        /\ routing_table[v] # None

\* C14: in the chain R2 - R1 - R3 without failures, with fair scheduling and
\* delivery, the router eventually holds a non-placeholder LSDB entry and a
\* route with a real next hop for both other routers (or has used up the
\* originations the model gives it)
C14_EventuallyConverged == <>(Converged \/ sequence_number = MaxOwnSeq)

\* the only way not to converge is the death of the LSA sender thread
C14_ConvergedUnlessSenderDead ==
    <>(Converged \/ sequence_number = MaxOwnSeq \/ pc["lsa"] = "dead")

\* C15: the router and a neighbor that both keep broadcasting HELLOs, each
\* listing the keys of its NeighborCost, eventually hold each other in
\* NeighborIP, although no LSA ever reaches the router
C15_HandshakeCompletes ==
    \A r \in Others : <>(r \in DOMAIN recognized /\ r \in peerRecognized)

\* the handshake with R2 is complete and the router has neither stored nor
\* originated any LSA
C15_Witness ==
    /\ "R2" \in DOMAIN recognized
    /\ "R2" \in peerRecognized
    /\ table = <<>>
    /\ sequence_number = 0

\* the least element of a set of numbers, Inf for the empty set
MinOf(S) == IF S = {} THEN Inf ELSE CHOOSE x \in S : \A y \in S : x <= y

\* the least total weight of a path of at most k links from u to v in the
\* directed graph tab[u].links[v] = w, Inf when there is none
RECURSIVE SpDist(_, _, _, _)
SpDist(tab, u, v, k) ==
    IF u = v THEN 0
    ELSE IF k = 0 \/ u \notin DOMAIN tab THEN Inf
    ELSE MinOf({IF SpDist(tab, n, v, k - 1) < Inf
                THEN tab[u].links[n] + SpDist(tab, n, v, k - 1) ELSE Inf :
                   n \in DOMAIN tab[u].links})

\* the SPF distance of d from the router
SpfDistance(tab, d) == SpDist(tab, Self, d, Cardinality(Ids) - 1)

\* hop is the first hop of a minimum-cost path from the router to d
IsFirstHop(tab, d, hop) ==
    /\ hop \in DOMAIN tab[Self].links
    /\ tab[Self].links[hop] + SpDist(tab, hop, d, Cardinality(Ids) - 1)
          = SpfDistance(tab, d)

\* the total weight of the path that following the predecessors from d
\* yields, at least Inf when the walk does not end at the router
RECURSIVE PredWeight(_, _, _, _)
PredWeight(tab, paths, d, k) ==
    IF d = Self THEN 0
    ELSE IF k = 0 \/ d \notin DOMAIN paths THEN Inf
    ELSE IF paths[d] = None \/ paths[d] \notin DOMAIN tab THEN Inf
    ELSE IF d \notin DOMAIN tab[paths[d]].links THEN Inf
    ELSE tab[paths[d]].links[d] + PredWeight(tab, paths, paths[d], k - 1)

\* C16: once the routes are recomputed on an LSDB with positive link costs,
\* every destination d reachable from the router is mapped by the routing
\* table to the first hop of a minimum-cost path to d, and the predecessors
\* dijkstra returns lead from d back to the router along a path whose total
\* weight is the SPF distance of d
C16_RoutesAreShortest ==
    pc["fd"] # "u_spf" =>
        \A d \in Others :
            SpfDistance(table, d) < Inf =>
                /\ d \in DOMAIN routing_table
                /\ IsFirstHop(table, d, routing_table[d])
                /\ PredWeight(table, dijkstra(table, torder).paths, d, Cardinality(Ids))
                      = SpfDistance(table, d)

\* the triangle with costs 1, 1, 5: R3 is routed via R2
C16_Witness ==
    /\ pc["fd"] # "u_spf"
    /\ DOMAIN table = Ids
    /\ table["R1"].links = [n \in {"R2", "R3"} |-> IF n = "R2" THEN 1 ELSE 5]
    /\ table["R2"].links = [n \in {"R1", "R3"} |-> 1]
    /\ table["R3"].links = [n \in {"R1", "R2"} |-> IF n = "R1" THEN 5 ELSE 1]
    /\ routing_table = [n \in {"R2", "R3"} |-> "R2"]

\* C17: once the routes are recomputed, no destination that is unreachable
\* from the router in the LSDB graph is a key of the routing table
C17_UnreachableOmitted ==
    pc["fd"] # "u_spf" =>
        \A d \in DOMAIN routing_table : SpfDistance(table, d) < Inf

\* C18: when check_failures has finished its handling of a failed neighbor
\* n (lines 624-634), n is a key of none of NeighborCost, NeighborIP and
\* LastHello
C18_FailedIsForgotten ==
    [][(pc["fd"] = "f_del_tab" /\ pc'["fd"] # "f_del_tab") =>
          /\ Head(failed) \notin DOMAIN detected'
          /\ Head(failed) \notin DOMAIN recognized'
          /\ Head(failed) \notin DOMAIN hello_timestamps']_vars

\* C19: when the failure detector has finished the handling of its scan
\* (recalculate_routes has returned), the LSDB holds no entry for a router
\* the scan declared failed and the links of the self entry do not name it
C19_FailedLeavesLsdb ==
    [][(pc["fd"] # "f_scan" /\ pc'["fd"] = "f_scan") =>
          \A n \in declared :
              /\ n \notin DOMAIN table'
              /\ Self \in DOMAIN table' => n \notin DOMAIN table'[Self].links]_vars

\* the self entry of the LSDB, the copy of the latest LSA the router
\* originated, names n in its links
SelfLsaLists(n) == Self \in DOMAIN table /\ n \in DOMAIN table[Self].links

\* C20: once the failure detector has handled the failure of neighbor n,
\* which the router's latest LSA lists, the router originates an LSA whose
\* links do not contain n, unless a further HELLO of n has been received
\* (or the router has used up the originations the model gives it)
C20_NextLsaOmitsFailed ==
    \A n \in Others :
        (n \in declared /\ pc["fd"] = "f_scan" /\ SelfLsaLists(n))
            ~> (~SelfLsaLists(n) \/ n \in DOMAIN detected
                  \/ sequence_number = MaxOwnSeq)

\* the only way not to originate it is the death of the LSA sender thread
C20_OmitsFailedUnlessSenderDead ==
    \A n \in Others :
        (n \in declared /\ pc["fd"] = "f_scan" /\ SelfLsaLists(n))
            ~> (~SelfLsaLists(n) \/ n \in DOMAIN detected
                  \/ sequence_number = MaxOwnSeq \/ pc["lsa"] = "dead")

\* C21: the step that receives a datagram whose router_id is the router's
\* own leaves NeighborCost, NeighborIP, LastHello, the LSDB and the routing
\* table as they are and sends nothing
C21_OwnDatagramDiscarded ==
    [][got'.router_id = Self =>
          /\ UNCHANGED <<detected, recognized, hello_timestamps>>
          /\ UNCHANGED <<table, torder, routing_table>>
          /\ sent' = {}]_vars

\* the router's own LSA has come back while the LSDB holds the self entry
C21_Witness ==
    /\ got.router_id = Self
    /\ got.type = "LSA"
    /\ Self \in DOMAIN table

\* C22: no step of the receiver that handles a HELLO without
\* known_neighbors (its receipt, lines 569-573, the failing test of line 576)
\* changes NeighborCost, NeighborIP, LastHello or the LSDB
C22_MalformedDropped ==
    [][(\/ got'.type = "HELLO" /\ got'.known_neighbors = NoList
        \/ /\ pkt["recv"].known_neighbors = NoList
           /\ pc["recv"] \in {"h_ts", "h_recog"}
           /\ pc'["recv"] # pc["recv"])
          => UNCHANGED <<detected, recognized, hello_timestamps, table>>]_vars

\* C23: no error ends a loop: the receiver, the LSA sender and the failure
\* detector never reach the position of a thread whose loop an exception has
\* unwound
C23_NoLoopTerminates == \A t \in Threads : pc[t] # "dead"

\* C24: a failed route command is only logged: the installer goes on with the
\* next address or destination, and when the receiver's update then completes
\* without another exception it returns True and the LSA is handed to sendto
\* for every recognized neighbor but the sender; a sendto that raises leaves
\* the other datagrams of that loop handed to sendto
C24_IoFailureNotFatal ==
    [][/\ \A t \in Threads :
             cmdfail'[t] \ cmdfail[t] # {} =>
                /\ pc'[t] = IF Len(cur[t].addrs) > 1 THEN "i_read" ELSE "i_next"
                /\ cur'[t].addrs = Tail(cur[t].addrs)
                /\ todo'[t] = todo[t]
                /\ UNCHANGED <<table, routing_table, kernel>>
       /\ (cmdfail["recv"] # {} /\ pc'["recv"] = "recv" /\ ret' # "raise") =>
             /\ ret' = "true"
             /\ sent' = {Datagram(recognized[n], pkt["recv"]) :
                            n \in {m \in DOMAIN recognized : recognized[m] # src}}
       /\ senderr' # {} =>
             sent' = IF pc["lsa"] = "l_iter" /\ pc'["lsa"] = "l_create"
                     THEN {Datagram(recognized[n], pkt["lsa"]) : n \in DOMAIN recognized}
                     ELSE {Datagram(recognized[n], pkt["recv"]) :
                             n \in {m \in DOMAIN recognized : recognized[m] # src}}]_vars

\* the receiver has reached the end of update_routes after a failed route
\* command, with a recognized neighbor to forward the LSA to
C24_Witness ==
    /\ cmdfail["recv"] # {}
    /\ pc["recv"] = "i_next"
    /\ todo["recv"] = <<>>
    /\ \E m \in DOMAIN recognized : recognized[m] # src

\* a sendto of a loop over two neighbors has raised, the other has not
C24_SendFailed ==
    /\ senderr # {}
    /\ senderr # sent

\* the LSDB holds an LSA of d and SPF has found a next hop towards d
Routed(d) ==
    /\ d \in DOMAIN table
    /\ table[d].sequence_number > 0
    /\ d \in DOMAIN routing_table
    /\ routing_table[d] # None
\* the kernel routes every address of d via the address of the next hop
Installed(d) ==
    /\ Routed(d)
    /\ routing_table[d] \in DOMAIN recognized
    /\ \A i \in 1..Len(table[d].addresses) :
          /\ table[d].addresses[i] \in DOMAIN kernel
          /\ kernel[table[d].addresses[i]] = recognized[routing_table[d]]

\* the LSA sender is alive and has originated the MaxOwnSeq LSAs of the bound
OriginationsDone == sequence_number = MaxOwnSeq /\ pc["lsa"] = "l_create"

C25_InstalledUnlessThreadsDead ==
    \A d \in Others :
        [](Routed(d) /\ routing_table[d] \notin DOMAIN recognized
             => [](Routed(d) /\ routing_table[d] \in DOMAIN recognized
                     => <>(\/ Installed(d)
                           \/ /\ pc["fd"] = "dead"
                              /\ pc["lsa"] = "dead" \/ OriginationsDone)))

\* C26: every key of NeighborIP is a key of the routing table, with itself as
\* next hop
C26_RecognizedIsDirect ==
    \A rid \in DOMAIN recognized :
        /\ rid \in DOMAIN routing_table
        /\ routing_table[rid] = rid

\* C27: every LSDB entry that is not a placeholder has only links of cost
\* above zero and no link to its own router
C27_LinksPositive ==
    \A r \in DOMAIN table :
        table[r].sequence_number # PlaceholderSeq =>
            \A n \in DOMAIN table[r].links :
                /\ table[r].links[n] > 0
                /\ n # r

\* the positions of a thread that has called LSDB.update (the receiver, the
\* LSA sender) between the store of line 91 and the return of update_routes
InUpdate == {"u_place", "u_spf", "i_next", "i_read", "i_run"}
\* thread u takes this step, and the step reads or writes LSDB._table or
\* LSDB._routing_table (lines 84-92, 112-140, 156-171, 193-195, 633-634)
AccessesLsdb(u) ==
    /\ pc'[u] # pc[u] \/ todo'[u] # todo[u]
    /\ \/ pc[u] \in {"u_place", "u_spf", "i_next", "f_del_tab"}
       \/ u = "recv" /\ pc[u] = "recv" /\ got'.type = "LSA"
       \/ u = "lsa" /\ pc[u] = "l_create"

\* C28: while a thread is between the store of an LSA and the end of the
\* route install that follows, no other thread takes a step that reads or
\* writes the LSDB or the routing table
C28_UpdateAtomic ==
    [][\A t \in {"recv", "lsa"} :
          pc[t] \in InUpdate => \A u \in Threads \ {t} : ~AccessesLsdb(u)]_vars

\* the receiver is inside process_hello and has applied only some of the
\* updates of the HELLO: line 569 but not line 573, or both but not the
\* promotion of line 577 that is due
HelloPartial ==
    \/ pc["recv"] = "h_ts"
    \/ /\ pc["recv"] = "h_recog"
       /\ pkt["recv"].known_neighbors # NoList
       /\ Self \in pkt["recv"].known_neighbors
       /\ pkt["recv"].router_id \notin DOMAIN recognized
\* this step is the LSA sender building the links of its LSA (line 350) or
\* iterating over its recipients (line 363), or the failure detector scanning
\* LastHello (lines 619-622)
ObservesNeighbors ==
    \/ pc["lsa"] \in {"l_create", "l_iter"} /\ pc'["lsa"] # pc["lsa"]
    \/ pc["fd"] = "f_scan" /\ nscans' # nscans

\* C29: no step of the LSA sender or of the failure detector reads the
\* neighbor sets while the receiver has applied only some of the updates of
\* a HELLO
C29_HelloAtomic == [][HelloPartial => ~ObservesNeighbors]_vars

\* C30: a step removes a key from NeighborCost or NeighborIP only if it is the
\* failure detector's deletion (lines 628, 631) of the router it is handling,
\* one of the failed_routers of its latest scan
C30_OnlyDetectorRemoves ==
    [][\A n \in Ids :
          /\ n \in DOMAIN detected /\ n \notin DOMAIN detected' =>
                /\ pc["fd"] = "f_del_det" /\ pc'["fd"] = "f_del_rec"
                /\ n = Head(failed) /\ n \in declared
          /\ n \in DOMAIN recognized /\ n \notin DOMAIN recognized' =>
                /\ pc["fd"] = "f_del_rec" /\ pc'["fd"] = "f_del_tab"
                /\ n = Head(failed) /\ n \in declared]_vars

\* the failure detector has removed a recognized neighbor it declared failed
\* from both sets, while another neighbor stays recognized
C30_Witness ==
    /\ pc["fd"] = "f_del_tab"
    /\ Head(failed) \in declared
    /\ pc["recv"] = "recv"
    /\ Head(failed) \in ackHello \cap DOMAIN hello_timestamps
    /\ Head(failed) \notin DOMAIN detected \cup DOMAIN recognized
    /\ DOMAIN recognized # {}
    /\ hello_timestamps[Head(failed)] < now - hello_interval * tolerance

\* C31: the address of a recognized neighbor is written only when the
\* neighbor is not recognized, it is then the source address of the HELLO in
\* hand, and no step changes it while the neighbor stays recognized
C31_RecognizedIpFixed ==
    [][\A n \in Ids :
          /\ n \in DOMAIN recognized /\ n \in DOMAIN recognized' =>
                recognized'[n] = recognized[n]
          /\ n \notin DOMAIN recognized /\ n \in DOMAIN recognized' =>
                /\ pc["recv"] = "h_recog"
                /\ pkt["recv"].router_id = n
                /\ recognized'[n] = src]_vars

\* a later HELLO of a recognized neighbor, from another address than the one
\* recorded, has passed lines 569-573 and is at the test of line 576
C31_Witness ==
    /\ pc["recv"] = "h_recog"
    /\ pkt["recv"].router_id \in DOMAIN recognized
    /\ Self \in pkt["recv"].known_neighbors
    /\ src # recognized[pkt["recv"].router_id]

\* C32: the receiver never leaves LSDB.update by an exception while the LSDB
\* holds the entry it stored for the LSA in hand, that is without having
\* called forward_to_neighbors for it
C32_StoredIsForwarded ==
    [][(/\ pc["recv"] \in InUpdate
        /\ pc'["recv"] = "recv"
        /\ ret' = "raise")
          => ~(/\ pkt["recv"].router_id \in DOMAIN table'
               /\ table'[pkt["recv"].router_id].sequence_number
                     = pkt["recv"].sequence_number)]_vars

\* the graph of the LSDB is closed: every router a link names has an entry,
\* and so has the router itself unless the LSDB is empty
Closed(tab) ==
    /\ \A r \in DOMAIN tab : \A n \in DOMAIN tab[r].links : n \in DOMAIN tab
    /\ DOMAIN tab # {} => Self \in DOMAIN tab

\* C33: whenever a thread runs dijkstra (line 198) the graph of the LSDB is
\* closed
C33_ClosedWhenSpfRuns ==
    [][\A t \in Threads :
          pc[t] = "u_spf" /\ pc'[t] # "u_spf" => Closed(table)]_vars

\* ------------------------------------ the test and the insertion of a placeholder apart
\* LSDB.recalculate_routes, lines 192-193: the loop has reached the first
\* observed router (in key order) that the test of line 193 finds absent;
\* the formated_printf of line 194 comes before the insertion
PlaceholderCheck(t) ==
    /\ pc[t] = "u_place"
    /\ observed[t] \ DOMAIN table # {}
    /\ LET absent == Head(Sorted(observed[t] \ DOMAIN table))
       IN observed' = [observed EXCEPT ![t] =
                          {x \in @ : \E i, j \in 1..Len(IdSeq) :
                                        /\ IdSeq[i] = absent /\ IdSeq[j] = x /\ i <= j}]
    /\ Goto(t, "u_new")
    /\ Quiet
    /\ UNCHANGED <<now, neigh, lsdb, lsa, pkt, src, failed, todo, cur, sendq, cmdfail,
                   bounds, ackHello, hist, peer, maxSeq, everRecognized, fresh>>

\* LSDB.recalculate_routes, line 195: the insertion for the router that
\* line 193 found absent, whatever the LSDB holds for it by now
PlaceholderInsert(t) ==
    /\ pc[t] = "u_new"
    /\ LET neighbor == Head(Sorted(observed[t]))
       IN /\ table' = Put(table, neighbor, Placeholder)
          /\ torder' = OrderPut(torder, neighbor)
          /\ maxSeq' = [maxSeq EXCEPT ![neighbor] =
                           IF @ < PlaceholderSeq THEN PlaceholderSeq ELSE @]
          /\ observed' = [observed EXCEPT ![t] = @ \ {neighbor}]
    /\ Goto(t, "u_place")
    /\ Quiet
    /\ UNCHANGED <<now, neigh, routing_table, kernel, lsa, pkt, src, failed, todo, cur,
                   sendq, cmdfail, bounds, ackHello, hist, peer, everRecognized, fresh>>

\* the steps of Next, the loop of lines 192-195 in one step only when it
\* inserts nothing
NextRace ==
    \/ /\ Next
       /\ \A t \in Threads :
             pc[t] = "u_place" /\ pc'[t] = "u_spf" => observed[t] \subseteq DOMAIN table
    \/ \E t \in Threads : PlaceholderCheck(t) /\ Sched(t)
    \/ \E t \in Threads : PlaceholderInsert(t) /\ Sched(t)

SpecRace == Init /\ [][NextRace]_vars

\* C34: no step of LSDB.update or recalculate_routes replaces a
\* non-placeholder entry by a placeholder, and an LSA received for a router
\* that the LSDB holds as a placeholder is never refused.
C34_PlaceholderOnlyForAbsent ==
    [][/\ \A r \in DOMAIN table :
             (/\ table[r].sequence_number # PlaceholderSeq
              /\ r \in DOMAIN table')
                => table'[r].sequence_number # PlaceholderSeq
       /\ (/\ got' \in Lsas
           /\ got'.router_id \in DOMAIN table
           /\ table[got'.router_id].sequence_number = PlaceholderSeq)
             => /\ ret' # "false"
                /\ table'[got'.router_id] = EntryOf(got')]_vars

\* ------------------------------------ every router of a converged network
\* LSDB.dijkstra, lines 107-116 and 142, in the router whose _router_id is
\* self
dijkstra_at(self, tab, ord) ==
    LET dorder == IF self \in DOMAIN tab THEN ord ELSE Append(ord, self)
        distances == [r \in DOMAIN tab \cup {self} |-> IF r = self THEN 0 ELSE Inf]
        paths == [r \in DOMAIN tab |-> None]
    IN DijkstraLoop(tab, dorder, distances, paths, {})

\* LSDB.update_next_hop, lines 153-155, in router self
RECURSIVE WalkHopAt(_, _, _)
WalkHopAt(self, paths, hop) ==
    IF hop = None THEN None
    ELSE IF paths[hop] = self THEN hop
    ELSE WalkHopAt(self, paths, paths[hop])

\* LSDB.update_next_hop, lines 151-158, in router self
update_next_hop_at(self, rt, paths) ==
    LET dests == DOMAIN paths \ {self}
    IN [d \in DOMAIN rt \cup dests |->
          IF d \in dests THEN WalkHopAt(self, paths, d) ELSE rt[d]]

NetCosts == {1, 2}

\* the LSDB every router of the network holds: an entry with sequence number
\* 1 for every router, its links any of the other routers at a positive cost
NetTables ==
    {[r \in Ids |-> create_entry(1, 0, AddrOf[r],
                       IF r = "R1" THEN l1 ELSE IF r = "R2" THEN l2 ELSE l3)] :
        l1 \in UNION {[S -> NetCosts] : S \in SUBSET (Ids \ {"R1"})},
        l2 \in UNION {[S -> NetCosts] : S \in SUBSET (Ids \ {"R2"})},
        l3 \in UNION {[S -> NetCosts] : S \in SUBSET (Ids \ {"R3"})}}

\* the routers hold the same entries, each in the order in which it stored
\* them, and have computed no route yet
InitNet ==
    /\ now = 0
    /\ detected = <<>>
    /\ recognized = <<>>
    /\ hello_timestamps = <<>>
    /\ table \in NetTables
    /\ torder = IdSeq
    /\ routing_table = <<>>
    /\ kernel = <<>>
    /\ sequence_number = 0
    /\ started = FALSE
    /\ pc = [t \in Threads |->
                IF t = "recv" THEN "recv" ELSE IF t = "lsa" THEN "idle" ELSE "f_scan"]
    /\ pkt = [t \in Threads |-> NoPacket]
    /\ src = None
    /\ upd = NoPacket
    /\ ret = "none"
    /\ failed = <<>>
    /\ observed = [t \in Threads |-> {}]
    /\ todo = [t \in Threads |-> <<>>]
    /\ cur = [t \in Threads |-> NoCur]
    /\ sendq = NoSend
    /\ sent = {}
    /\ senderr = {}
    /\ cmdfail = [t \in Threads |-> {}]
    /\ got = NoPacket
    /\ nrecv = 0
    /\ nscans = 0
    /\ nthreads = 0
    /\ ackHello = {}
    /\ maxSeq = [r \in Ids |-> 1]
    /\ everRecognized = FALSE
    /\ fresh = {}
    /\ originated = <<>>
    /\ forwards = [k \in Others \X (1..MaxLsaSeq) |-> 0]
    /\ removals = [r \in Ids |-> 0]
    /\ declared = {}
    /\ peerDetected = {}
    /\ peerRecognized = {}
    /\ inbox = {}
    /\ netOrder \in [Ids -> KeyOrders(Ids)]
    /\ netRoutes = [u \in Ids |-> <<>>]
    /\ peerLsa = [sequence_number |-> 0, boots |-> 0]
    /\ running = None
    /\ npre = 0

\* LSDB.recalculate_routes, lines 198-200, in router u of the network
NetRecalc(u) ==
    /\ netRoutes[u] = <<>>
    /\ \E r \in {dijkstra_at(u, table, netOrder[u])} :
         /\ r.ok
         /\ netRoutes' = [netRoutes EXCEPT ![u] = update_next_hop_at(u, @, r.paths)]
    /\ UNCHANGED <<now, neigh, lsdb, lsa, locals, bounds, pc, upd, ret, sent, senderr, got,
                   ackHello, hist, peerDetected, peerRecognized, inbox, netOrder, peerLsa, maxSeq,
                   everRecognized, fresh, running, npre>>

NextNet == \E u \in Ids : NetRecalc(u)

SpecNet == InitNet /\ [][NextNet]_vars

\* following the next hops of the routing tables from router u leads to
\* destination d without visiting a router twice
RECURSIVE Reaches(_, _, _, _)
Reaches(routes, u, d, visited) ==
    IF u = d THEN TRUE
    ELSE IF u \in visited THEN FALSE
    ELSE IF d \notin DOMAIN routes[u] THEN FALSE
    ELSE IF routes[u][d] \notin Ids THEN FALSE
    ELSE Reaches(routes, routes[u][d], d, visited \cup {u})

\* every router of the network has computed its routes
NetConverged == \A u \in Ids : netRoutes[u] # <<>>

\* C35: when all routers hold the same LSDB and have computed their routes,
\* then for every router u and every destination d in the routing table of
\* u, following the next hops from u reaches d without visiting a router
\* twice, whatever the order of the keys of each router's LSDB.
C35_ConsistentLoopFree ==
    NetConverged =>
        \A u \in Ids : \A d \in DOMAIN netRoutes[u] : Reaches(netRoutes, u, d, {})

\* C35 for the destinations that have a next hop: the routing tables of the
\* network lead to every destination that the table of u maps to a router
C35_RoutedLoopFree ==
    NetConverged =>
        \A u \in Ids : \A d \in DOMAIN netRoutes[u] :
            netRoutes[u][d] # None => Reaches(netRoutes, u, d, {})

\* ------------------------------------ the failure detector scans on
MaxLaterScans == 1

\* NeighborManager.check_failures, line 617: the loop has no end; one of the
\* MaxLaterScans iterations that follow the first MaxScans
FailScanLater ==
    /\ nscans >= MaxScans
    /\ nscans < MaxScans + MaxLaterScans
    /\ nscans' = nscans + 1
    /\ ScanOnce

NextScan ==
    \/ Next
    \/ FailScanLater /\ Sched("fd")

SpecScan == Init /\ [][NextScan]_vars

\* the LSDB holds an LSA of n that was stored after a scan of the failure
\* detector had deleted the entry of n, and LastHello[n] is still outside the
\* tolerance window
Relearned(n) ==
    /\ removals[n] >= 1
    /\ n \in DOMAIN table
    /\ table[n].sequence_number >= 1
    /\ n \in FailedRouters

\* C36: an LSA of a neighbor n that was stored after n had been declared
\* failed, while the HELLOs of n stay absent, is not deleted from the LSDB by
\* a later scan of the failure detector.
C36_RelearnedEntryStays ==
    [][\A n \in Others : Relearned(n) => n \in DOMAIN table']_vars

\* ------------------------------------ a neighbor that restarts
\* neighbor R2 of the chain R2 - R1 originates its LSAs one after the other
\* and restarts at most once; every LSA it originates reaches the router, no
\* neighbor falls silent
MaxBoots == 1

\* the sequence numbers R2 can still use under the bounds: one LSA before its
\* restart, MaxLsaSeq of them after it
PeerMayOriginate ==
    peerLsa.sequence_number < (IF peerLsa.boots = 0 THEN MaxLsaSeq - 1 ELSE MaxLsaSeq)

\* LSASender.create_packet in R2, lines 343-351
peer_create_packet ==
    LsaPacket("R2", peerLsa.sequence_number + 1, 1, AddrOf["R2"], [n \in {Self} |-> 1])

\* LSASender.send_to_neighbors in R2, lines 359-370, and
\* Router.receive_packets: the next LSA of R2 is returned by recvfrom
RestartReceiveLsa ==
    /\ PeerMayOriginate
    /\ peerLsa' = [peerLsa EXCEPT !.sequence_number = @ + 1]
    /\ ReceiveLsaOf({peer_create_packet})
    /\ UNCHANGED <<nrecv, peerDetected, peerRecognized, inbox, netOrder, netRoutes>>

\* LSASender.__init__ in R2, line 323: the process of R2 starts again
PeerRestart ==
    /\ peerLsa.boots < MaxBoots
    /\ peerLsa.sequence_number >= 1
    /\ peerLsa' = [sequence_number |-> 0, boots |-> peerLsa.boots + 1]
    /\ Quiet
    /\ UNCHANGED <<now, neigh, lsdb, lsa, locals, bounds, pc, ackHello, hist,
                   peerDetected, peerRecognized, inbox, netOrder, netRoutes, maxSeq,
                   everRecognized, fresh, running, npre>>

RestartReceiveHello ==
    Delivered(MaxRecv) /\ ReceiveHelloOf({HelloPacket("R2", now, {Self})})

\* the steps of thread t other than the return of recvfrom
RestartSteps(t) ==
    \/ UpdateSteps(t)
    \/ t = "recv" /\ HelloTimestamp /\ Sched(t)
    \/ t = "recv" /\ HelloRecognize /\ Sched(t)
    \/ t = "lsa" /\ LsaCreate /\ Sched(t)
    \/ t = "lsa" /\ LsaSendNext /\ Sched(t)
    \/ t = "fd" /\ FailScan /\ Sched(t)

\* LSASender.send_to_neighbors in R2 and recvfrom in the router
RestartLsa == RestartReceiveLsa /\ Sched("recv")

NextRestart ==
    \/ RestartLsa
    \/ PeerRestart
    \/ RestartReceiveHello /\ Sched("recv")
    \/ \E t \in Threads : RestartSteps(t)

\* R2 originates periodically and its LSAs are delivered; every thread of
\* the router that can run does run
SpecRestart ==
    /\ Init
    /\ [][NextRestart]_vars
    /\ WF_vars(RestartLsa)
    /\ \A t \in Threads : WF_vars(RestartSteps(t))

\* R2 has restarted and the LSDB still holds its entry with sequence number k
StaleAfterRestart(k) ==
    /\ peerLsa.boots >= 1
    /\ peerLsa.sequence_number = 0
    /\ "R2" \in DOMAIN table
    /\ table["R2"].sequence_number = k

\* C37: after R2 has restarted, an LSA of R2 whose sequence number is at
\* most the stored number k is refused and leaves the LSDB, the routing table
\* and the kernel routes as they are; the entry of R2 is replaced by an LSA
\* only when the number of the LSA exceeds k; and as R2 keeps originating,
\* the LSDB eventually holds an entry of R2 with a number above k.
C37_RestartSuperseded ==
    /\ [][(/\ peerLsa.boots >= 1
           /\ got'.type = "LSA"
           /\ "R2" \in DOMAIN table
           /\ table["R2"].sequence_number >= 1)
             => IF got'.sequence_number <= table["R2"].sequence_number
                THEN /\ ret' = "false"
                     /\ table' = table
                     /\ routing_table' = routing_table
                     /\ kernel' = kernel
                ELSE table'["R2"] = EntryOf(got')]_vars
    /\ [][("R2" \in DOMAIN table /\ "R2" \in DOMAIN table'
           /\ table'["R2"] # table["R2"] /\ table'["R2"].sequence_number >= 1)
             => /\ got'.type = "LSA"
                /\ got'.sequence_number > table["R2"].sequence_number]_vars
    /\ \A k \in 1..(MaxLsaSeq - 1) :
          [](StaleAfterRestart(k)
                => <>("R2" \in DOMAIN table /\ table["R2"].sequence_number > k))

\* the first LSA of the restarted R2, number 1, has been refused while the
\* LSDB holds the entry with number 1 that R2 originated before its restart
C37_Witness ==
    /\ peerLsa = [sequence_number |-> 1, boots |-> 1]
    /\ got = LsaPacket("R2", 1, 1, AddrOf["R2"], [n \in {Self} |-> 1])
    /\ ret = "false"
    /\ "R2" \in DOMAIN table
    /\ table["R2"].sequence_number = 1
    /\ routing_table # <<>>

\* the receiver thread takes the step
RecvStep ==
    \/ pc'["recv"] # pc["recv"]
    \/ got' # NoPacket
    \/ todo'["recv"] # todo["recv"]
    \/ cur'["recv"] # cur["recv"]
    \/ observed'["recv"] # observed["recv"]

\* the step belongs to process_hello: recvfrom returns a HELLO, or the
\* receiver is at line 573 or line 576
InProcessHello ==
    /\ RecvStep
    /\ got'.type = "HELLO" \/ pc["recv"] \in {"h_ts", "h_recog"}

\* the step belongs to process_lsa: recvfrom returns an LSA, or the receiver
\* is inside LSDB.update
InProcessLsa ==
    /\ RecvStep
    /\ got'.type = "LSA" \/ pc["recv"] \in InUpdate

\* C38: a step of process_hello leaves the LSDB, the routing table, the
\* kernel routes and the sequence counter as they are, and a step of
\* process_lsa leaves NeighborCost, NeighborIP, LastHello and the state of
\* the LSA sender as they are.
C38_FrameOfHelloAndLsa ==
    [][/\ InProcessHello =>
             /\ table' = table
             /\ torder' = torder
             /\ routing_table' = routing_table
             /\ kernel' = kernel
             /\ sequence_number' = sequence_number
       /\ InProcessLsa =>
             /\ detected' = detected
             /\ recognized' = recognized
             /\ hello_timestamps' = hello_timestamps
             /\ started' = started
             /\ sequence_number' = sequence_number]_vars

\* a HELLO of R2 and an LSA of R2 have been processed to the end: R2 is
\* recognized, its LSA is stored and a route is installed
C38_Witness ==
    /\ pc["recv"] = "recv"
    /\ "R2" \in DOMAIN recognized
    /\ "R2" \in DOMAIN hello_timestamps
    /\ "R2" \in DOMAIN table
    /\ table["R2"].sequence_number >= 1
    /\ routing_table # <<>>
    /\ kernel # <<>>

\* C39: when the failure detector removes a router from NeighborCost, from
\* NeighborIP or from the LSDB (lines 628, 631, 634), the latest HELLO of
\* that router is outside the tolerance window at that moment.
C39_RemovedIsSilent ==
    [][\A n \in Ids :
          (/\ pc["fd"] \in {"f_del_det", "f_del_rec", "f_del_tab"}
           /\ pc'["fd"] # pc["fd"]
           /\ n = Head(failed)
           /\ \/ n \in DOMAIN detected /\ n \notin DOMAIN detected'
              \/ n \in DOMAIN recognized /\ n \notin DOMAIN recognized'
              \/ n \in DOMAIN table /\ n \notin DOMAIN table')
             => n \in FailedRouters]_vars

====
